---- MODULE Spec2Model ----
(***************************************************************************)
(* Graph construction and persistence engine of the arXiv paper-graph      *)
(* backend (src/backend/main.py): discovery of related papers, batch       *)
(* embedding, upsert into the global paper store (graph_papers), k-nearest *)
(* neighbour linking, and sessions that replay a graph from the store.     *)
(*                                                                         *)
(* A request handler is a process p.  Every action is one stretch of       *)
(* handler code between two awaits (asyncio runs it without interruption), *)
(* or the effect of one MongoDB operation.                                 *)
(*                                                                         *)
(*   Spec       one request at a time, driven from the idle service        *)
(*   SpecBuild  one build or session creation on an empty store           *)
(*   SpecGraph  the link builder on graphs of up to MaxGraphNodes nodes    *)
(*   SpecReload the same graphs, build and reload by two handlers           *)
(*   SpecSessions  get, list, rename and delete, one request at a time     *)
(*   SpecRace   two session requests in flight, all interleavings         *)
(*   SpecConc   two builds in their store phase, all interleavings         *)
(*   SpecCreateRace  a session request arriving while a create writes      *)
(*   SpecCanon  canonicalize_paper_id on seed links built from pieces      *)
(*   SpecStartup  lifespan: configuration, connect_db, the first search    *)
(*   SpecConnect  SpecStartup with weak fairness of the startup steps      *)
(***************************************************************************)
EXTENDS Integers, Sequences, FiniteSets, TLC

\* ------------------------------------------------------------------ bounds
NPapers == 2          \* canonical paper ids 1..NPapers known to arXiv
MaxPieces == 3        \* pieces a seed link of SpecCanon is written with at most
MaxRetries == 2       \* MONGODB_CONNECT_RETRIES, where set, is at most this
MaxCands == 2         \* candidates one discovery call delivers at most
NVersions == 2        \* distinct metadata answers arXiv gives for one id
MaxRequests == 2      \* requests per behaviour of Spec
MaxGraphNodes == 5    \* nodes of a graph in SpecGraph
NUsers == 2

\* ------------------------------------------------------- program constants
K_NEIGHBORS == 3

Procs == 1..2
PaperIds == 1..NPapers
Users == 1..NUsers
NoId == 0             \* a reference that carries no arXiv id
None == "None"        \* Python's None where a string is expected
NoText == <<"None">>  \* Python's None where a text field is expected
EmptyText == <<>>     \* the empty string as a text field

\* Embedding vectors the embedding service may return.  The real vectors
\* have 1536 floats; two small integer components give every case of the
\* similarity order: equal, orthogonal and oblique in Vectors (SpecGraph),
\* equal and zero-norm in SvcVectors (Spec, SpecConc).
Vectors == {<<1, 0>>, <<0, 1>>, <<1, 1>>}
SvcVectors == {<<1, 1>>, <<0, 0>>}

\* ------------------------------------------------------ sequence helpers
Range(s) == {s[i] : i \in DOMAIN s}

IsInjective(s) == \A i, j \in DOMAIN s : s[i] = s[j] => i = j

SeqsUpTo(S, n) == UNION {[1..k -> S] : k \in 0..n}

Min(a, b) == IF a <= b THEN a ELSE b

\* The orders of n documents the model lets a find() return: the rotations
\* of the natural order and their reversals (every order when n <= 3).
Orders(n) ==
    IF n = 0
    THEN {<<>>}
    ELSE {[x \in 1..n |-> ((x - 1 + r) % n) + 1] : r \in 0..(n - 1)}
         \cup {[x \in 1..n |-> n - ((x - 1 + r) % n)] : r \in 0..(n - 1)}

\* ------------------------------------------------- similarity (papers.py)
\* cosine_similarity is imported from papers.py; a float dot/(|a||b|) with 0
\* for a zero norm.  The value d/sqrt(m) is kept exactly as the pair
\* [num |-> d, den2 |-> m]; components here are never negative.
Dot(a, b) == a[1] * b[1] + a[2] * b[2]

cosine_similarity(a, b) ==
    LET m == Dot(a, a) * Dot(b, b)
    IN  IF m = 0 THEN [num |-> 0, den2 |-> 1]
                 ELSE [num |-> Dot(a, b), den2 |-> m]

\* x > y for two similarities (both non-negative): compare the squares.
SimGreater(x, y) == x.num * x.num * y.den2 > y.num * y.num * x.den2

SimEqual(x, y) == x.num * x.num * y.den2 = y.num * y.num * x.den2

\* round(sim, 4) in units of 1e-4: the r nearest to 10000 * d / sqrt(m),
\* found by bisection on (2r - 1)^2 * m <= 4 * 10^8 * d^2.
RECURSIVE RoundSearch(_, _, _)
RoundSearch(sim, lo, hi) ==
    IF lo >= hi THEN lo
    ELSE LET mid == (lo + hi + 1) \div 2
         IN  IF (2 * mid - 1) * (2 * mid - 1) * sim.den2
                    <= 400000000 * sim.num * sim.num
             THEN RoundSearch(sim, mid, hi)
             ELSE RoundSearch(sim, lo, mid - 1)

Round4(sim) == RoundSearch(sim, 0, 10000)

\* ------------------------------------- k-nearest-neighbour links (main.py)
\* similarities of node i: the (j, sim) pairs over the other embedded nodes,
\* in node order (main.py:468-473).
Similarities(nodes, node_embeddings, i) ==
    LET js == SelectSeq([j \in 1..Len(nodes) |-> j],
                  LAMBDA j : j # i /\ nodes[j].id \in DOMAIN node_embeddings)
    IN  [x \in 1..Len(js) |->
            [j |-> js[x],
             sim |-> cosine_similarity(node_embeddings[nodes[i].id],
                                       node_embeddings[nodes[js[x]].id])]]

\* A descending sort that puts the later of two equal similarities first.
SortDescTiesLast(sims) ==
    LET before == [x \in DOMAIN sims |->
                      Cardinality({y \in DOMAIN sims :
                          \/ SimGreater(sims[y].sim, sims[x].sim)
                          \/ SimEqual(sims[y].sim, sims[x].sim) /\ y > x})]
    IN  [r \in 1..Len(sims) |->
            sims[CHOOSE x \in DOMAIN sims : before[x] = r - 1]]

\* list.sort(key = sim, reverse = True): descending and stable, so equal
\* similarities keep their order in the list (main.py:474).
SortDesc(sims) ==
    LET before == [x \in DOMAIN sims |->
                      Cardinality({y \in DOMAIN sims :
                          \/ SimGreater(sims[y].sim, sims[x].sim)
                          \/ SimEqual(sims[y].sim, sims[x].sim) /\ y < x})]
    IN  [r \in 1..Len(sims) |->
            sims[CHOOSE x \in DOMAIN sims : before[x] = r - 1]]

\* similarities[:K_NEIGHBORS]
TopK(sims) == SubSeq(SortDesc(sims), 1, Min(K_NEIGHBORS, Len(sims)))

\* key = tuple(sorted((a, b)))
LinkKeyOrdered(a, b) == <<a, b>>

LinkKey(a, b) == IF a <= b THEN <<a, b>> ELSE <<b, a>>

\* `key not in seen_link_keys` (main.py:477)
KeyNeverSeen(key, seen) == TRUE

KeyNotSeen(key, seen) == key \notin seen

\* The inner loop of main.py:475-479 over the selected neighbours of node i.
\* acc is [links, seen]: the link list and seen_link_keys so far.
RECURSIVE AddLinks(_, _, _, _, _)
AddLinks(nodes, i, top, x, acc) ==
    IF x > Len(top) THEN acc
    ELSE LET key == LinkKey(nodes[i].id, nodes[top[x].j].id)
             nxt == IF KeyNotSeen(key, acc.seen)
                    THEN [links |-> Append(acc.links,
                                      [source |-> nodes[i].id,
                                       target |-> nodes[top[x].j].id,
                                       similarity |-> Round4(top[x].sim)]),
                          seen |-> acc.seen \cup {key}]
                    ELSE acc
         IN  AddLinks(nodes, i, top, x + 1, nxt)

\* The outer loop of main.py:465-479 from node i on.
RECURSIVE LinkLoop(_, _, _, _)
LinkLoop(nodes, node_embeddings, i, acc) ==
    IF i > Len(nodes) THEN acc
    ELSE IF nodes[i].id \notin DOMAIN node_embeddings
         THEN LinkLoop(nodes, node_embeddings, i + 1, acc)
         ELSE LinkLoop(nodes, node_embeddings, i + 1,
                  AddLinks(nodes, i,
                           TopK(Similarities(nodes, node_embeddings, i)), 1, acc))

\* A link loop that leaves out the first node of the list.
BuildLinksSkipFirst(nodes, node_embeddings) ==
    IF DOMAIN node_embeddings = {} THEN <<>>
    ELSE LinkLoop(nodes, node_embeddings, 2, [links |-> <<>>, seen |-> {}]).links

\* links of _generate_graph_internal (main.py:459-479)
BuildLinks(nodes, node_embeddings) ==
    IF DOMAIN node_embeddings = {} THEN <<>>
    ELSE LinkLoop(nodes, node_embeddings, 1, [links |-> <<>>, seen |-> {}]).links

\* links of get_session (main.py:660-680): the same loop, written twice in
\* the source.
SessionLinks(nodes, node_embeddings) ==
    IF DOMAIN node_embeddings = {} THEN <<>>
    ELSE LinkLoop(nodes, node_embeddings, 1, [links |-> <<>>, seen |-> {}]).links


\* ------------------------------------------------ strings and canonical id
\* A Python str is the sequence of its characters, each a one-character
\* string.
Digits == {"0", "1", "2", "3", "4", "5", "6", "7", "8", "9"}

\* str.startswith
startswith(s, prefix) ==
    Len(s) >= Len(prefix) /\ SubSeq(s, 1, Len(prefix)) = prefix

\* The positions where sub occurs in s.
Occurrences(s, sub) ==
    {i \in 1..(Len(s) - Len(sub) + 1) : SubSeq(s, i, i + Len(sub) - 1) = sub}

\* `sub in s`
Contains(s, sub) == Occurrences(s, sub) # {}

\* s.split(sub)[-1]: what follows the last occurrence of sub.
SplitLast(s, sub) ==
    IF ~ Contains(s, sub) THEN s
    ELSE LET i == CHOOSE x \in Occurrences(s, sub) :
                      \A y \in Occurrences(s, sub) : y <= x
         IN  SubSeq(s, i + Len(sub), Len(s))

\* s.rstrip(c) and s.lstrip(c) for one character c
RECURSIVE rstrip(_, _)
rstrip(s, c) ==
    IF s # <<>> /\ s[Len(s)] = c THEN rstrip(SubSeq(s, 1, Len(s) - 1), c) ELSE s

RECURSIVE lstrip(_, _)
lstrip(s, c) == IF s # <<>> /\ s[1] = c THEN lstrip(Tail(s), c) ELSE s

\* s.strip(): the whitespace of the model is the blank.
strip(s) == lstrip(rstrip(s, " "), " ")

\* s.replace(old, ""): every occurrence of old goes, from left to right.
RECURSIVE replace(_, _)
replace(s, old) ==
    IF Len(s) < Len(old) THEN s
    ELSE IF startswith(s, old)
    THEN replace(SubSeq(s, Len(old) + 1, Len(s)), old)
    ELSE <<s[1]>> \o replace(Tail(s), old)

\* A lower() that changes no letter.
lowerNothing(s) == s

\* s.lower(), on the capital letters a link of the model has.
lower(s) ==
    [i \in DOMAIN s |->
        CASE s[i] = "A" -> "a" [] s[i] = "R" -> "r" [] s[i] = "X" -> "x"
          [] s[i] = "I" -> "i" [] s[i] = "V" -> "v" [] OTHER -> s[i]]

\* s.isdigit(): not empty, and digits only.
isdigit(s) == s # <<>> /\ \A i \in DOMAIN s : s[i] \in Digits

\* s.rpartition("v"): <<base, separator, suffix>> around the last "v";
\* without a "v" the base and the separator are empty.
rpartition(s) ==
    LET vs == {i \in DOMAIN s : s[i] = "v"}
    IN  IF vs = {} THEN << <<>>, <<>>, s >>
        ELSE LET i == CHOOSE x \in vs : \A y \in vs : y <= x
             IN  << SubSeq(s, 1, i - 1), <<"v">>, SubSeq(s, i + 1, Len(s)) >>

AbsSegment == <<"/", "a", "b", "s", "/">>
PdfSegment == <<"/", "p", "d", "f", "/">>
PdfSuffix == <<".", "p", "d", "f">>
ArxivPrefix == <<"a", "r", "x", "i", "v", ":">>

\* extract_paper_id (main.py:186-192)
extract_paper_id(link) ==
    IF Contains(link, AbsSegment) THEN rstrip(SplitLast(link, AbsSegment), "/")
    ELSE IF Contains(link, PdfSegment)
    THEN replace(SplitLast(link, PdfSegment), PdfSuffix)
    ELSE link

\* canonicalize_paper_id (main.py:195-205).  split(":", maxsplit=1)[1] of a
\* string that starts with "arxiv:" is what follows these six characters.
canonicalize_paper_id(value) ==
    LET extracted == extract_paper_id(strip(value))
        unprefixed == IF startswith(lower(extracted), ArxivPrefix)
                      THEN SubSeq(extracted, Len(ArxivPrefix) + 1, Len(extracted))
                      ELSE extracted
        parts == rpartition(unprefixed)
        paper_id == IF parts[2] # <<>> /\ parts[1] # <<>> /\ isdigit(parts[3])
                    THEN parts[1] ELSE unprefixed
    IN  strip(paper_id)

\* ------------------------------------------------------------ data model
\* `x or y` on a text field: the empty string is falsy.
Or(x, y) == IF x = EmptyText THEN y ELSE x

\* The metadata arXiv answers for paper id in its version v
\* (fetch_arxiv_paper, fetch_arxiv_papers_batch: main.py:142-148, 169-182).
\* The url is http://arxiv.org/abs/<id>v<v>.
Meta(id, v) ==
    [title |-> <<"title", id, v>>, url |-> <<"abs", id, v>>,
     published |-> <<"published", id, v>>, authors |-> <<"authors", id, v>>,
     summary |-> <<"summary", id, v>>]

Metas == {Meta(id, v) : id \in PaperIds, v \in 1..NVersions}

\* canonicalize_paper_id on an /abs/ url: the id without its version suffix.
CanonicalOfUrl(url) == url[2]

\* build_root_node (main.py:208-226)
build_root_node(paper_id, paper) ==
    [id |-> paper_id,
     label |-> Or(paper.title, paper_id),
     content |-> Or(paper.summary, <<"arXiv paper", paper_id>>),
     url |-> Or(paper.url, <<"abs", paper_id, 0>>),
     published |-> Or(paper.published, NoText),
     authors |-> paper.authors,
     summary |-> paper.summary,
     is_root |-> TRUE]

\* The node of one discovered candidate (main.py:382-406): from the batch
\* metadata when the id is in it, else title-only.
GroundingNode(disc, discovered_meta) ==
    LET aid == disc.arxiv_id
    IN  IF aid \in DOMAIN discovered_meta
        THEN LET meta == discovered_meta[aid]
             IN  [id |-> aid,
                  label |-> Or(meta.title, aid),
                  content |-> Or(meta.summary, <<"Related paper", aid>>),
                  url |-> Or(meta.url, <<"abs", aid, 0>>),
                  published |-> Or(meta.published, NoText),
                  authors |-> meta.authors,
                  summary |-> meta.summary,
                  is_root |-> FALSE]
        ELSE [id |-> aid,
              label |-> disc.title,
              content |-> <<"Related paper", aid>>,
              url |-> <<"abs", aid, 0>>,
              published |-> NoText,
              authors |-> <<>>,
              summary |-> EmptyText,
              is_root |-> FALSE]

\* The loop over discovered candidates (main.py:377-407), from candidate x on.
GroundingSkipNothing(aid, seen_node_ids, root_id) == FALSE

GroundingSkip(aid, seen_node_ids, root_id) ==
    aid \in seen_node_ids \/ aid = root_id

RECURSIVE GroundingLoop(_, _, _, _, _)
GroundingLoop(discovered, discovered_meta, x, nodes, seen_node_ids) ==
    IF x > Len(discovered) THEN nodes
    ELSE LET aid == discovered[x].arxiv_id
         IN  IF GroundingSkip(aid, seen_node_ids, nodes[1].id)
             THEN GroundingLoop(discovered, discovered_meta, x + 1,
                                nodes, seen_node_ids)
             ELSE GroundingLoop(discovered, discovered_meta, x + 1,
                      Append(nodes, GroundingNode(discovered[x], discovered_meta)),
                      seen_node_ids \cup {aid})

\* An entry that loses its arxiv_url with its arxiv_id when it is not
\* enriched.
ReferenceEntryEnrichedOnly(raw, any_arxiv, arxiv_meta) ==
    LET enriched == any_arxiv /\ raw.arxiv # NoId /\ raw.arxiv \in DOMAIN arxiv_meta
    IN  [title |-> IF enriched THEN arxiv_meta[raw.arxiv].title ELSE raw.title,
         arxiv_url |-> NoText,
         url |-> IF enriched THEN arxiv_meta[raw.arxiv].url ELSE NoText,
         published |-> IF enriched THEN arxiv_meta[raw.arxiv].published
                       ELSE EmptyText,
         authors |-> IF enriched THEN arxiv_meta[raw.arxiv].authors ELSE <<>>,
         summary |-> IF enriched THEN arxiv_meta[raw.arxiv].summary
                     ELSE EmptyText]

\* One entry of fetch_references' result (main.py:240-267).  raw is one
\* element of the provider's "references": its title and its ArXiv external
\* id (NoId when it has none).  any_arxiv: arxiv_ids is not empty.
ReferenceEntry(raw, any_arxiv, arxiv_meta) ==
    LET enriched == any_arxiv /\ raw.arxiv # NoId /\ raw.arxiv \in DOMAIN arxiv_meta
    IN  [title |-> IF enriched THEN arxiv_meta[raw.arxiv].title ELSE raw.title,
         arxiv_url |-> IF raw.arxiv # NoId THEN <<"abs", raw.arxiv, 0>> ELSE NoText,
         url |-> IF enriched THEN arxiv_meta[raw.arxiv].url ELSE NoText,
         published |-> IF enriched THEN arxiv_meta[raw.arxiv].published
                       ELSE EmptyText,
         authors |-> IF enriched THEN arxiv_meta[raw.arxiv].authors ELSE <<>>,
         summary |-> IF enriched THEN arxiv_meta[raw.arxiv].summary
                     ELSE EmptyText]

\* fetch_references on a parsed provider answer (main.py:238-269)
fetch_references(raws, arxiv_meta) ==
    LET any_arxiv == \E x \in DOMAIN raws : raws[x].arxiv # NoId
    IN  [x \in DOMAIN raws |-> ReferenceEntry(raws[x], any_arxiv, arxiv_meta)]

\* extract_reference_paper_id (main.py:297-302); NoId stands for None.
extract_reference_paper_id(reference) ==
    LET url_candidate == IF reference.url # NoText THEN reference.url
                         ELSE reference.arxiv_url
    IN  IF url_candidate = NoText THEN NoId ELSE CanonicalOfUrl(url_candidate)

\* build_reference_node (main.py:305-329); NoNode stands for None.
NoNode == [id |-> NoId]

build_reference_node(reference) ==
    LET paper_id == extract_reference_paper_id(reference)
    IN  IF paper_id = NoId THEN NoNode
        ELSE [id |-> paper_id,
              label |-> Or(reference.title, paper_id),
              content |-> Or(reference.summary, <<"Referenced paper", paper_id>>),
              url |-> IF reference.url # NoText THEN reference.url
                      ELSE reference.arxiv_url,
              published |-> Or(reference.published, NoText),
              authors |-> reference.authors,
              summary |-> reference.summary,
              is_root |-> FALSE]

\* The loop over references (main.py:417-423), from reference x on.
RECURSIVE ReferenceLoop(_, _, _, _)
ReferenceLoop(references, x, nodes, seen_node_ids) ==
    IF x > Len(references) THEN nodes
    ELSE LET node == build_reference_node(references[x])
         IN  IF node.id = NoId
             THEN ReferenceLoop(references, x + 1, nodes, seen_node_ids)
             ELSE IF node.id = nodes[1].id \/ node.id \in seen_node_ids
                  THEN ReferenceLoop(references, x + 1, nodes, seen_node_ids)
                  ELSE ReferenceLoop(references, x + 1, Append(nodes, node),
                                     seen_node_ids \cup {node.id})

\* ------------------------------------------- provider failures (main.py)
\* What the citation provider call can raise: raise_for_status gives an
\* HTTPStatusError, the transport a TimeoutException or another HTTPError,
\* response.json() a JSONDecodeError on a body that is not JSON.
RefExceptions ==
    {"HTTPStatusError429RetryAfter", "HTTPStatusError429", "HTTPStatusError500",
     "TimeoutException", "ConnectError", "JSONDecodeError"}

\* isinstance(exc, httpx.HTTPError): JSONDecodeError is a ValueError.
IsHTTPError(exc) ==
    exc \in {"HTTPStatusError429RetryAfter", "HTTPStatusError429",
             "HTTPStatusError500", "TimeoutException", "ConnectError"}

\* except (httpx.HTTPError, ET.ParseError) (main.py:414)
ReferencesCaughtAll(exc) == TRUE

ReferencesCaught(exc) == IsHTTPError(exc) \/ exc = "ParseError"

\* summarize_references_error (main.py:272-294)
summarize_references_error(exc) ==
    CASE exc = "HTTPStatusError429RetryAfter" ->
            "Semantic Scholar rate limit reached (HTTP 429). Retry-After: 30."
      [] exc = "HTTPStatusError429" ->
            "Semantic Scholar rate limit reached (HTTP 429). Try again shortly."
      [] exc = "HTTPStatusError500" ->
            "Semantic Scholar request failed with HTTP 500."
      [] exc = "TimeoutException" ->
            "Timed out while fetching references from Semantic Scholar."
      [] exc = "ConnectError" ->
            "Failed to fetch references from Semantic Scholar."
      [] exc = "ParseError" ->
            "Failed to parse reference metadata from arXiv."
      [] OTHER -> "Failed to fetch references."

\* What find_similar_papers_via_search can raise, as the text of the
\* exception: str(exc) may be empty.
SearchExceptions == {"", "quota exceeded"}

\* f"Google Search grounding failed: {exc}" (main.py:366)
GroundingErrorEmpty(exc) == exc

GroundingError(exc) == "Google Search grounding failed: " \o exc


\* ------------------------------------------------------------ paper store
\* The $set document of the upsert (main.py:445-453).
SetFields(node, emb, now) ==
    [title |-> node.label, summary |-> node.summary, url |-> node.url,
     authors |-> node.authors,
     published |-> IF node.published = NoText THEN EmptyText ELSE node.published,
     embedding |-> emb, updated_at |-> now]

\* update_one({"arxiv_id": id}, {"$set": set, "$setOnInsert": {"created_at":
\* now}}, upsert=True) on the collection (main.py:442-457): the first
\* document with the id gets the $set fields; when there is none, one is
\* inserted with the $set fields and created_at.
UpdateOneInsertAlways(coll, arxiv_id, set, now) ==
    Append(coll, [arxiv_id |-> arxiv_id, title |-> set.title,
                  summary |-> set.summary, url |-> set.url,
                  authors |-> set.authors, published |-> set.published,
                  embedding |-> set.embedding, updated_at |-> set.updated_at,
                  created_at |-> now])

UpdateOneResetCreated(coll, arxiv_id, set, now) ==
    IF \E x \in DOMAIN coll : coll[x].arxiv_id = arxiv_id
    THEN LET x == CHOOSE y \in DOMAIN coll : coll[y].arxiv_id = arxiv_id
         IN  [coll EXCEPT ![x] = [arxiv_id |-> arxiv_id, title |-> set.title,
                  summary |-> set.summary, url |-> set.url,
                  authors |-> set.authors, published |-> set.published,
                  embedding |-> set.embedding, updated_at |-> set.updated_at,
                  created_at |-> now]]
    ELSE UpdateOneInsertAlways(coll, arxiv_id, set, now)

UpdateOneUpsert(coll, arxiv_id, set, now) ==
    LET hits == {x \in DOMAIN coll : coll[x].arxiv_id = arxiv_id}
    IN  IF hits # {}
        THEN LET x == CHOOSE y \in hits : \A z \in hits : y <= z
             IN  [coll EXCEPT ![x] =
                     [arxiv_id |-> arxiv_id, title |-> set.title,
                      summary |-> set.summary, url |-> set.url,
                      authors |-> set.authors, published |-> set.published,
                      embedding |-> set.embedding,
                      updated_at |-> set.updated_at,
                      created_at |-> coll[x].created_at]]
        ELSE Append(coll,
                 [arxiv_id |-> arxiv_id, title |-> set.title,
                  summary |-> set.summary, url |-> set.url,
                  authors |-> set.authors, published |-> set.published,
                  embedding |-> set.embedding, updated_at |-> set.updated_at,
                  created_at |-> now])

\* node_embeddings (main.py:433-435): zip(nodes, embeddings) as a map.
NodeEmbeddingsPadded(nodes, embeddings) ==
    IF embeddings = <<>> THEN <<>>
    ELSE [id \in {nodes[x].id : x \in DOMAIN nodes} |->
             embeddings[Min(Len(embeddings),
                            CHOOSE x \in DOMAIN nodes : nodes[x].id = id)]]

NodeEmbeddings(nodes, embeddings) ==
    LET n == Min(Len(nodes), Len(embeddings))
    IN  [id \in {nodes[x].id : x \in 1..n} |->
            embeddings[CHOOSE x \in 1..n :
                /\ nodes[x].id = id
                /\ \A y \in 1..n : nodes[y].id = id => y <= x]]

\* GraphResponse of _generate_graph_internal (main.py:481-487)
GraphResponse(root_id, nodes, links, discovery_error) ==
    [seed_id |-> root_id, nodes |-> nodes, links |-> links,
     partial_data |-> (discovery_error # None),
     references_error |-> discovery_error]

\* The node get_session builds from a stored paper (main.py:646-655).
SessionNode(paper, seed_id) ==
    [id |-> paper.arxiv_id, label |-> paper.title, content |-> paper.summary,
     url |-> paper.url, published |-> paper.published,
     authors |-> paper.authors, summary |-> paper.summary,
     is_root |-> (paper.arxiv_id = seed_id)]

\* ------------------------------------------------------------------ state
VARIABLES
    pc,             \* pc[p]: where handler p stands
    req,            \* req[p]: the local variables of handler p
    resp,           \* resp[p]: the response handler p returned last
    graph_papers,   \* the collection graph_papers, in natural order
    sessions,       \* the collection sessions
    session_papers, \* the collection session_papers
    clock,          \* datetime.now(timezone.utc)
    next_oid,       \* the next ObjectId MongoDB hands out
    arxiv_rev,      \* the revision of its papers arXiv serves at present
    upsert_log,     \* history: every upsert applied to graph_papers, in order
    env,            \* os.environ as the process was started with
    client,         \* database.client
    db,             \* database.db
    lifespan        \* where the lifespan of the app stands

vars == <<pc, req, resp, graph_papers, sessions, session_papers, clock,
          next_oid, arxiv_rev, upsert_log, env, client, db, lifespan>>

service_vars == <<env, client, db, lifespan>>

\* The service as every request of a running app finds it: the environment
\* complete, connect_db through, the handles set (main.py:25-31).
ServiceUp ==
    /\ env = [JWT_SECRET_KEY |-> TRUE, MONGODB_URI |-> TRUE,
              MONGODB_DB_NAME |-> TRUE, OPENAI_API_KEY |-> TRUE,
              MONGODB_CONNECT_RETRIES |-> <<>>, MONGODB_ENSURE_INDEXES |-> TRUE]
    /\ client = "AsyncIOMotorClient"
    /\ db = "Database"
    /\ lifespan = [pc |-> "serving", attempt |-> 1, last_connect_error |-> None,
                   error |-> None]

Modes == {"grounding", "references"}

NoReq ==
    [op |-> "none", user |-> 0, paper_id |-> NoId, mode |-> "", title |-> None,
     discovered |-> <<>>, raw_references |-> <<>>, disc_exc |-> None,
     meta_failed |-> FALSE, embed_failed |-> FALSE,
     nodes |-> <<>>, discovery_error |-> None, embeddings |-> <<>>,
     now |-> 0, i |-> 0, graph |-> None, session_id |-> 0,
     session |-> None, arxiv_ids |-> <<>>,
     link |-> <<>>, paper_id_chars |-> <<>>]

NoResp == [status |-> 0, body |-> None, by |-> NoReq]

\* The handler returns (or raises an HTTPException): its locals are gone.
Return(p, status, body) ==
    /\ resp' = [resp EXCEPT ![p] = [status |-> status, body |-> body, by |-> req[p]]]
    /\ req' = [req EXCEPT ![p] = NoReq]
    /\ pc' = [pc EXCEPT ![p] = "idle"]

Init ==
    /\ ServiceUp
    /\ pc = [p \in Procs |-> "idle"]
    /\ req = [p \in Procs |-> NoReq]
    /\ resp = [p \in Procs |-> NoResp]
    /\ graph_papers = <<>>
    /\ sessions = {}
    /\ session_papers = <<>>
    /\ clock = 0
    /\ next_oid = 1
    /\ arxiv_rev = 1
    /\ upsert_log = <<>>

store_vars == <<graph_papers, sessions, session_papers, next_oid, upsert_log>>

\* Between two requests arXiv publishes revised metadata of its papers.  (A
\* revision before the first request changes nothing any request can tell.)
ArxivRevises ==
    /\ \A q \in Procs : pc[q] = "idle"
    /\ clock > 0
    /\ arxiv_rev < NVersions
    /\ arxiv_rev' = arxiv_rev + 1
    /\ UNCHANGED <<service_vars, pc, req, resp, store_vars, clock>>

\* ------------------------------------------------------- build: discovery
\* GET /graph and POST /sessions up to the first await (main.py:506-510,
\* 534-539, 340-344): canonical id, mode check, then the seed fetch starts.
StartBuild(p) ==
    /\ pc[p] = "idle"
    /\ \A q \in Procs : pc[q] = "idle"
    /\ clock < MaxRequests
    /\ clock' = clock + 1
    /\ \E op \in {"graph", "create"}, paper_id \in PaperIds \cup {NoId},
          mode \in Modes \cup {"other"} :
       \E user \in IF op = "create" THEN Users ELSE {0} :  \* get_graph reads no user
          LET r == [NoReq EXCEPT !.op = op, !.paper_id = paper_id,
                                 !.mode = mode, !.user = user]
          IN  /\ req' = [req EXCEPT ![p] = r]
              /\ resp' = [resp EXCEPT ![p] = NoResp]
              /\ pc' = [pc EXCEPT ![p] =
                     IF paper_id = NoId THEN "reject_id"
                     ELSE IF mode \notin Modes THEN "reject_mode"
                     ELSE "fetch_seed"]
    /\ UNCHANGED <<service_vars, store_vars, arxiv_rev>>

\* `if not paper_id: raise HTTPException(422)` (main.py:507-508, 535-536)
RejectId(p) ==
    /\ pc[p] = "reject_id"
    /\ Return(p, 422, None)
    /\ UNCHANGED <<service_vars, store_vars, clock, arxiv_rev>>

\* `if mode not in (...): raise HTTPException(422)` (main.py:340-341)
RejectMode(p) ==
    /\ pc[p] = "reject_mode"
    /\ Return(p, 422, None)
    /\ UNCHANGED <<service_vars, store_vars, clock, arxiv_rev>>

\* fetch_arxiv_paper raised (main.py:343-346)
SeedFetchFails(p) ==
    /\ pc[p] = "fetch_seed"
    /\ Return(p, 502, None)
    /\ UNCHANGED <<service_vars, store_vars, clock, arxiv_rev>>

\* fetch_arxiv_paper found no entry (main.py:348-349)
SeedNotFoundSessionFirst(p) ==
    /\ pc[p] = "fetch_seed"
    /\ Return(p, 404, None)
    /\ sessions' =
          IF req[p].op = "create"
          THEN sessions \cup
                 {[_id |-> next_oid, user_id |-> req[p].user,
                   title |-> req[p].title, seed_paper_id |-> req[p].paper_id,
                   mode |-> req[p].mode, created_at |-> clock,
                   last_accessed |-> clock]}
          ELSE sessions
    /\ UNCHANGED <<service_vars, graph_papers, session_papers, next_oid, upsert_log, clock,
                   arxiv_rev>>

SeedNotFound(p) ==
    /\ pc[p] = "fetch_seed"
    /\ Return(p, 404, None)
    /\ UNCHANGED <<service_vars, store_vars, clock, arxiv_rev>>

\* fetch_arxiv_paper returned the seed paper; the root node is built and the
\* discovery call starts (main.py:352-364, 411-413).
SeedFound(p) ==
    /\ pc[p] = "fetch_seed"
    /\ req' = [req EXCEPT ![p].nodes =
           <<build_root_node(req[p].paper_id, Meta(req[p].paper_id, arxiv_rev))>>]
    /\ pc' = [pc EXCEPT ![p] = "discover"]
    /\ UNCHANGED <<service_vars, resp, store_vars, clock, arxiv_rev>>

\* What the batch metadata fetch can answer for ids: any part of them
\* (fetch_arxiv_papers_batch, main.py:160-183).
BatchAnswers(ids) ==
    {[id \in found |-> Meta(id, arxiv_rev)] : found \in SUBSET ids}

\* Grounding: find_similar_papers_via_search raised (main.py:363-366); with
\* nothing discovered no metadata is fetched and no node is added.
GroundingFails(p) ==
    /\ pc[p] = "discover"
    /\ req[p].mode = "grounding"
    /\ \E exc \in SearchExceptions :
          req' = [req EXCEPT ![p].disc_exc = "Exception",
                             ![p].discovery_error = GroundingError(exc)]
    /\ pc' = [pc EXCEPT ![p] = "embed"]
    /\ UNCHANGED <<service_vars, resp, store_vars, clock, arxiv_rev>>

\* Grounding: the search returned candidates, their metadata is fetched in
\* one batch (it may fail: main.py:371-375) and the nodes are built
\* (main.py:369-407).
GroundingDiscovers(p) ==
    /\ pc[p] = "discover"
    /\ req[p].mode = "grounding"
    /\ \E ids \in SeqsUpTo(PaperIds, MaxCands) :
          LET discovered == [x \in DOMAIN ids |->
                                [arxiv_id |-> ids[x], title |-> <<"found", ids[x]>>]]
          IN  \E meta_failed \in {c \in BOOLEAN : c => ids # <<>>} :
              \E discovered_meta \in
                    IF meta_failed \/ ids = <<>> THEN {<<>>}
                    ELSE BatchAnswers(Range(ids)) :
                 req' = [req EXCEPT
                     ![p].discovered = discovered,
                     ![p].meta_failed = meta_failed,
                     ![p].nodes = GroundingLoop(discovered, discovered_meta, 1,
                                      req[p].nodes, {req[p].nodes[1].id})]
    /\ pc' = [pc EXCEPT ![p] = "embed"]
    /\ UNCHANGED <<service_vars, resp, store_vars, clock, arxiv_rev>>

\* References: fetch_references raised an exception the handler catches
\* (main.py:412-415).
ReferencesFail(p) ==
    /\ pc[p] = "discover"
    /\ req[p].mode = "references"
    /\ \E exc \in RefExceptions :
          /\ ReferencesCaught(exc)
          /\ req' = [req EXCEPT ![p].disc_exc = exc,
                        ![p].discovery_error = summarize_references_error(exc)]
    /\ pc' = [pc EXCEPT ![p] = "embed"]
    /\ UNCHANGED <<service_vars, resp, store_vars, clock, arxiv_rev>>

\* References: fetch_references raised an exception the handler does not
\* catch: it leaves _generate_graph_internal and the request fails (500).
ReferencesCrash(p) ==
    /\ pc[p] = "discover"
    /\ req[p].mode = "references"
    /\ \E exc \in RefExceptions :
          /\ ~ReferencesCaught(exc)
          /\ resp' = [resp EXCEPT ![p] =
                 [status |-> 500, body |-> None,
                  by |-> [req[p] EXCEPT !.disc_exc = exc]]]
          /\ req' = [req EXCEPT ![p] = NoReq]
          /\ pc' = [pc EXCEPT ![p] = "idle"]
    /\ UNCHANGED <<service_vars, store_vars, clock, arxiv_rev>>

\* References: the provider answered; references with an arXiv id are
\* enriched in one batch (it may fail: main.py:254-258) and the nodes are
\* built (main.py:417-423).
ReferencesDiscovered(p) ==
    /\ pc[p] = "discover"
    /\ req[p].mode = "references"
    /\ \E ids \in SeqsUpTo(PaperIds \cup {NoId}, MaxCands) :
          LET raws == [x \in DOMAIN ids |->
                          [title |-> <<"cited", ids[x]>>, arxiv |-> ids[x]]]
              arxiv_ids == Range(ids) \ {NoId}
          IN  \E meta_failed \in {c \in BOOLEAN : c => arxiv_ids # {}} :
              \E arxiv_meta \in
                    IF meta_failed \/ arxiv_ids = {} THEN {<<>>}
                    ELSE BatchAnswers(arxiv_ids) :
                 req' = [req EXCEPT
                     ![p].raw_references = raws,
                     ![p].meta_failed = meta_failed,
                     ![p].nodes = ReferenceLoop(fetch_references(raws, arxiv_meta),
                                      1, req[p].nodes, {req[p].nodes[1].id})]
    /\ pc' = [pc EXCEPT ![p] = "embed"]
    /\ UNCHANGED <<service_vars, resp, store_vars, clock, arxiv_rev>>


\* ------------------------------------------------- build: embed and store
\* How many (node, embedding) pairs the upsert loop visits (main.py:441).
UpsertCount(r) == Min(Len(r.nodes), Len(r.embeddings))

\* The texts handed to generate_embeddings_batch, one per node
\* (main.py:426): `n.summary or n.content`.
Summaries(nodes) ==
    [x \in DOMAIN nodes |->
        IF nodes[x].summary \in {NoText, EmptyText}
        THEN nodes[x].content ELSE nodes[x].summary]

\* generate_embeddings_batch raised: embeddings = [] (main.py:427-430), so
\* neither node_embeddings nor the upsert loop has an element.  (discovered
\* and references are dead from here on and are dropped from the state.)
EmbedFails(p) ==
    /\ pc[p] = "embed"
    /\ req' = [req EXCEPT ![p].embed_failed = TRUE, ![p].embeddings = <<>>,
                          ![p].now = clock,
                          ![p].discovered = <<>>, ![p].raw_references = <<>>]
    /\ pc' = [pc EXCEPT ![p] = "respond"]
    /\ UNCHANGED <<service_vars, resp, store_vars, clock, arxiv_rev>>

\* generate_embeddings_batch returned a list of vectors, as long as the node
\* list or shorter; `now` is read and the first upsert starts
\* (main.py:428, 433-441).
EmbedReturns(p) ==
    /\ pc[p] = "embed"
    /\ \E k \in 1..Len(req[p].nodes) :
       \E embeddings \in [1..k -> SvcVectors] :
          req' = [req EXCEPT ![p].embeddings = embeddings, ![p].now = clock,
                             ![p].i = 1,
                             ![p].discovered = <<>>, ![p].raw_references = <<>>]
    /\ pc' = [pc EXCEPT ![p] = "upsert"]
    /\ UNCHANGED <<service_vars, resp, store_vars, clock, arxiv_rev>>

\* One update_one of the upsert loop takes effect (main.py:441-457).
Upsert(p) ==
    /\ pc[p] = "upsert"
    /\ LET r == req[p]
           node == r.nodes[r.i]
           set == SetFields(node, r.embeddings[r.i], r.now)
       IN  /\ graph_papers' = UpdateOneUpsert(graph_papers, node.id, set, r.now)
           /\ upsert_log' = Append(upsert_log,
                                [arxiv_id |-> node.id, set |-> set, now |-> r.now])
           /\ req' = [req EXCEPT ![p].i = r.i + 1]
           /\ pc' = [pc EXCEPT ![p] =
                        IF r.i < UpsertCount(r) THEN "upsert" ELSE "respond"]
    /\ UNCHANGED <<service_vars, resp, sessions, session_papers, next_oid, clock, arxiv_rev>>

\* The graph of the build (main.py:459-489).
BuiltGraphEmbeddedOnly(r) ==
    GraphResponse(r.nodes[1].id, SubSeq(r.nodes, 1, UpsertCount(r)),
                  BuildLinks(r.nodes, NodeEmbeddings(r.nodes, r.embeddings)),
                  r.discovery_error)

BuiltGraph(r) ==
    GraphResponse(r.nodes[1].id, r.nodes,
                  BuildLinks(r.nodes, NodeEmbeddings(r.nodes, r.embeddings)),
                  r.discovery_error)

\* The links are built and _generate_graph_internal returns.  get_graph
\* returns the graph (main.py:510-511); create_session builds the session
\* document and starts its insert (main.py:541-554).
Respond(p) ==
    /\ pc[p] = "respond"
    /\ IF req[p].op = "graph"
       THEN Return(p, 200, BuiltGraph(req[p]))
       ELSE /\ req' = [req EXCEPT
                   ![p].graph = BuiltGraph(req[p]),
                   ![p].now = clock,
                   ![p].session = [user_id |-> req[p].user,
                                   title |-> req[p].title,
                                   seed_paper_id |-> req[p].paper_id,
                                   mode |-> req[p].mode,
                                   created_at |-> clock,
                                   last_accessed |-> clock]]
            /\ pc' = [pc EXCEPT ![p] = "insert_session"]
            /\ UNCHANGED resp
    /\ UNCHANGED <<service_vars, store_vars, clock, arxiv_rev>>

\* ---------------------------------------------------------------- sessions
WithId(doc, oid) ==
    [_id |-> oid, user_id |-> doc.user_id, title |-> doc.title,
     seed_paper_id |-> doc.seed_paper_id, mode |-> doc.mode,
     created_at |-> doc.created_at, last_accessed |-> doc.last_accessed]

\* db.sessions.insert_one(session_doc) takes effect (main.py:554-555).
InsertSession(p) ==
    /\ pc[p] = "insert_session"
    /\ sessions' = sessions \cup {WithId(req[p].session, next_oid)}
    /\ next_oid' = next_oid + 1
    /\ req' = [req EXCEPT ![p].session_id = next_oid, ![p].i = 1]
    /\ pc' = [pc EXCEPT ![p] = "insert_papers"]
    /\ UNCHANGED <<service_vars, resp, graph_papers, session_papers, upsert_log, clock,
                   arxiv_rev>>

\* SessionResponse of create_session (main.py:566-574)
CreatedResponse(r) ==
    [id |-> r.session_id, user_id |-> r.user, title |-> r.title,
     seed_paper_id |-> r.paper_id, mode |-> r.mode,
     created_at |-> r.now, last_accessed |-> r.now]

\* db.sessions.insert_one raised (a PyMongoError, main.py:554): nothing is
\* written and the exception leaves the handler.
InsertSessionFails(p) ==
    /\ pc[p] = "insert_session"
    /\ Return(p, 500, "PyMongoError")
    /\ UNCHANGED <<service_vars, store_vars, clock, arxiv_rev>>

\* The document of one junction row (main.py:559-564).
SessionPaperRowAllSeed(r, node) ==
    [session_id |-> r.session_id, arxiv_id |-> node.id,
     is_seed |-> TRUE, added_at |-> r.now]

SessionPaperRow(r, node) ==
    [session_id |-> r.session_id, arxiv_id |-> node.id,
     is_seed |-> (node.id = r.paper_id), added_at |-> r.now]

\* One db.session_papers.insert_one of the loop takes effect
\* (main.py:558-564); the unique index on (session_id, arxiv_id) refuses a
\* second row of the pair with a DuplicateKeyError.  After the last row the
\* handler returns 201.
InsertSessionPaper(p) ==
    /\ pc[p] = "insert_papers"
    /\ LET r == req[p]
           node == r.nodes[r.i]
           row == SessionPaperRow(r, node)
       IN  IF \E x \in DOMAIN session_papers :
                 /\ session_papers[x].session_id = row.session_id
                 /\ session_papers[x].arxiv_id = row.arxiv_id
           THEN /\ Return(p, 500, None)
                /\ UNCHANGED session_papers
           ELSE /\ session_papers' = Append(session_papers, row)
                /\ IF r.i < Len(r.nodes)
                   THEN /\ req' = [req EXCEPT ![p].i = r.i + 1]
                        /\ UNCHANGED <<service_vars, pc, resp>>
                   ELSE Return(p, 201, CreatedResponse(r))
    /\ UNCHANGED <<service_vars, graph_papers, sessions, next_oid, upsert_log, clock,
                   arxiv_rev>>

\* One db.session_papers.insert_one of the loop raised (main.py:558): the
\* exception leaves the handler, which undoes nothing; the session document
\* and the rows written before stay.
InsertSessionPaperFails(p) ==
    /\ pc[p] = "insert_papers"
    /\ Return(p, 500, "PyMongoError")
    /\ UNCHANGED <<service_vars, store_vars, clock, arxiv_rev>>

\* GET /sessions/{id} up to its first await (main.py:611-620).
StartGet(p) ==
    /\ pc[p] = "idle"
    /\ \A q \in Procs : pc[q] = "idle"
    /\ clock < MaxRequests
    /\ clock' = clock + 1
    /\ \E user \in Users, oid \in 1..next_oid :
          req' = [req EXCEPT ![p] =
                     [NoReq EXCEPT !.op = "get", !.user = user, !.session_id = oid]]
    /\ resp' = [resp EXCEPT ![p] = NoResp]
    /\ pc' = [pc EXCEPT ![p] = "get_find"]
    /\ UNCHANGED <<service_vars, store_vars, arxiv_rev>>

\* find_one({"_id": oid, "user_id": user_id})
FindSessionAnyUser(oid, user_id) ==
    {s \in sessions : s._id = oid}

FindSession(oid, user_id) ==
    {s \in sessions : s._id = oid /\ s.user_id = user_id}

\* The find_one answers (main.py:620-622): 404 when there is no such
\* session of the user, else the touch starts with the time read now.
GetFind(p) ==
    /\ pc[p] = "get_find"
    /\ LET found == FindSession(req[p].session_id, req[p].user)
       IN  IF found = {}
           THEN Return(p, 404, None)
           ELSE /\ req' = [req EXCEPT ![p].session = CHOOSE s \in found : TRUE,
                                      ![p].now = clock]
                /\ pc' = [pc EXCEPT ![p] = "get_touch"]
                /\ UNCHANGED resp
    /\ UNCHANGED <<service_vars, store_vars, clock, arxiv_rev>>

\* update_one({"_id": oid}, {"$set": {"last_accessed": now}}) takes effect
\* (main.py:625-628).
GetTouch(p) ==
    /\ pc[p] = "get_touch"
    /\ sessions' = {IF s._id = req[p].session_id
                    THEN [s EXCEPT !.last_accessed = req[p].now] ELSE s
                    : s \in sessions}
    /\ pc' = [pc EXCEPT ![p] = "get_rows"]
    /\ UNCHANGED <<service_vars, req, resp, graph_papers, session_papers, next_oid,
                   upsert_log, clock, arxiv_rev>>

\* session_papers.find({"session_id": oid}) answers (main.py:631-635).
GetRows(p) ==
    /\ pc[p] = "get_rows"
    /\ LET rows == SelectSeq(session_papers,
                       LAMBDA row : row.session_id = req[p].session_id)
           arxiv_ids == [x \in DOMAIN rows |-> rows[x].arxiv_id]
       IN  IF arxiv_ids = <<>>
           THEN Return(p, 404, None)
           ELSE /\ req' = [req EXCEPT ![p].arxiv_ids = arxiv_ids]
                /\ pc' = [pc EXCEPT ![p] = "get_papers"]
                /\ UNCHANGED resp
    /\ UNCHANGED <<service_vars, store_vars, clock, arxiv_rev>>

\* The graph get_session returns for paper_docs (main.py:641-688).  Every
\* document of graph_papers has an "embedding" (the upsert sets it).
SessionGraph(paper_docs, seed_id) ==
    LET nodes == [x \in DOMAIN paper_docs |-> SessionNode(paper_docs[x], seed_id)]
        node_embeddings ==
            [id \in {paper_docs[x].arxiv_id : x \in DOMAIN paper_docs} |->
                LET last == CHOOSE x \in DOMAIN paper_docs :
                        /\ paper_docs[x].arxiv_id = id
                        /\ \A y \in DOMAIN paper_docs :
                              paper_docs[y].arxiv_id = id => y <= x
                IN  paper_docs[last].embedding]
    IN  [seed_id |-> seed_id, nodes |-> nodes,
         links |-> SessionLinks(nodes, node_embeddings),
         partial_data |-> FALSE, references_error |-> None]

\* graph_papers.find({"arxiv_id": {"$in": arxiv_ids}}) answers, in an order
\* MongoDB does not promise, and the graph is returned (main.py:638-688).
GetPapers(p) ==
    /\ pc[p] = "get_papers"
    /\ LET hits == SelectSeq(graph_papers,
                       LAMBDA doc : doc.arxiv_id \in Range(req[p].arxiv_ids))
       IN  \E order \in Orders(Len(hits)) :
              Return(p, 200,
                     SessionGraph([x \in DOMAIN hits |-> hits[order[x]]],
                                  req[p].session.seed_paper_id))
    /\ UNCHANGED <<service_vars, store_vars, clock, arxiv_rev>>

\* SessionResponse of a session document (main.py:590-598, 723-731).
SessionResponseOf(s) ==
    [id |-> s._id, user_id |-> s.user_id, title |-> s.title,
     seed_paper_id |-> s.seed_paper_id, mode |-> s.mode,
     created_at |-> s.created_at, last_accessed |-> s.last_accessed]

\* The orders in which find(...).sort("last_accessed", -1) can return the
\* documents of S (main.py:585): last_accessed never increases along the
\* list; MongoDB promises nothing about documents with equal values.
UnsortedSessions(S) ==
    {seq \in [1..Cardinality(S) -> S] : IsInjective(seq)}

SortedByLastAccessed(S) ==
    {seq \in [1..Cardinality(S) -> S] :
        /\ IsInjective(seq)
        /\ \A x, y \in DOMAIN seq :
              x < y => seq[x].last_accessed >= seq[y].last_accessed}

\* GET /sessions up to its await (main.py:581-586).  now is not read by the
\* handler; it records when the request arrived.
StartList(p) ==
    /\ pc[p] = "idle"
    /\ \A q \in Procs : pc[q] = "idle"
    /\ clock < MaxRequests
    /\ clock' = clock + 1
    /\ \E user \in Users :
          req' = [req EXCEPT ![p] =
                     [NoReq EXCEPT !.op = "list", !.user = user,
                                   !.now = clock + 1]]
    /\ resp' = [resp EXCEPT ![p] = NoResp]
    /\ pc' = [pc EXCEPT ![p] = "list_find"]
    /\ UNCHANGED <<service_vars, store_vars, arxiv_rev>>

\* The sorted find answers and the list is returned (main.py:585-599).
ListFind(p) ==
    /\ pc[p] = "list_find"
    /\ \E found \in SortedByLastAccessed(
                      {s \in sessions : s.user_id = req[p].user}) :
          Return(p, 200, [x \in DOMAIN found |-> SessionResponseOf(found[x])])
    /\ UNCHANGED <<service_vars, store_vars, clock, arxiv_rev>>

\* The titles a PATCH carries: none, or a new one.
NewTitles == {None, "renamed"}

\* PATCH /sessions/{id} up to its first await (main.py:700-709).
StartRename(p) ==
    /\ pc[p] = "idle"
    /\ \A q \in Procs : pc[q] = "idle"
    /\ clock < MaxRequests
    /\ clock' = clock + 1
    /\ \E user \in Users, oid \in 1..next_oid, title \in NewTitles :
          req' = [req EXCEPT ![p] =
                     [NoReq EXCEPT !.op = "rename", !.user = user,
                                   !.session_id = oid, !.title = title]]
    /\ resp' = [resp EXCEPT ![p] = NoResp]
    /\ pc' = [pc EXCEPT ![p] = "rename_find"]
    /\ UNCHANGED <<service_vars, store_vars, arxiv_rev>>

\* The find_one answers (main.py:709-721): 404 when there is no such session
\* of the user; without a title nothing is written and the session is
\* returned as found; else the update starts.
RenameFind(p) ==
    /\ pc[p] = "rename_find"
    /\ LET found == FindSession(req[p].session_id, req[p].user)
       IN  IF found = {}
           THEN Return(p, 404, None)
           ELSE IF req[p].title = None
           THEN Return(p, 200, SessionResponseOf(CHOOSE s \in found : TRUE))
           ELSE /\ req' = [req EXCEPT ![p].session = CHOOSE s \in found : TRUE]
                /\ pc' = [pc EXCEPT ![p] = "rename_write"]
                /\ UNCHANGED resp
    /\ UNCHANGED <<service_vars, store_vars, clock, arxiv_rev>>

\* A $set that also bumps last_accessed, as the update of get_session does.
SetUpdateFieldsTouch(s, title, now) ==
    [s EXCEPT !.title = title, !.last_accessed = now]

\* {"$set": update_fields} on a session document: update_fields has the
\* title and nothing else (main.py:715-720).
SetUpdateFields(s, title, now) == [s EXCEPT !.title = title]

\* update_one({"_id": oid}, {"$set": {"title": title}}) takes effect, on the
\* session with the id if there still is one, and the handler returns the
\* session it found, with the new title (main.py:719-731).
RenameWrite(p) ==
    /\ pc[p] = "rename_write"
    /\ sessions' = {IF s._id = req[p].session_id
                    THEN SetUpdateFields(s, req[p].title, clock) ELSE s
                    : s \in sessions}
    /\ Return(p, 200,
              SessionResponseOf([req[p].session EXCEPT !.title = req[p].title]))
    /\ UNCHANGED <<service_vars, graph_papers, session_papers, next_oid, upsert_log, clock,
                   arxiv_rev>>

\* DELETE /sessions/{id} up to its first await (main.py:739-751).
StartDelete(p) ==
    /\ pc[p] = "idle"
    /\ \A q \in Procs : pc[q] = "idle"
    /\ clock < MaxRequests
    /\ clock' = clock + 1
    /\ \E user \in Users, oid \in 1..next_oid :
          req' = [req EXCEPT ![p] =
                     [NoReq EXCEPT !.op = "delete", !.user = user,
                                   !.session_id = oid]]
    /\ resp' = [resp EXCEPT ![p] = NoResp]
    /\ pc' = [pc EXCEPT ![p] = "delete_find"]
    /\ UNCHANGED <<service_vars, store_vars, arxiv_rev>>

\* The find_one answers (main.py:751-753).
DeleteFind(p) ==
    /\ pc[p] = "delete_find"
    /\ IF FindSession(req[p].session_id, req[p].user) = {}
       THEN Return(p, 404, None)
       ELSE /\ pc' = [pc EXCEPT ![p] = "delete_rows"]
            /\ UNCHANGED <<service_vars, req, resp>>
    /\ UNCHANGED <<service_vars, store_vars, clock, arxiv_rev>>

\* What delete_many({"session_id": oid}) leaves of rows (main.py:756).
RowsKeptNone(rows, oid) == <<>>

RowsKept(rows, oid) == SelectSeq(rows, LAMBDA row : row.session_id # oid)

\* session_papers.delete_many({"session_id": oid}) takes effect
\* (main.py:756).
DeleteRows(p) ==
    /\ pc[p] = "delete_rows"
    /\ session_papers' = RowsKept(session_papers, req[p].session_id)
    /\ pc' = [pc EXCEPT ![p] = "delete_session"]
    /\ UNCHANGED <<service_vars, req, resp, graph_papers, sessions, next_oid, upsert_log,
                   clock, arxiv_rev>>

\* sessions.delete_one({"_id": oid}) takes effect and the handler returns
\* 204 (main.py:759-762).
DeleteSession(p) ==
    /\ pc[p] = "delete_session"
    /\ sessions' = {s \in sessions : s._id # req[p].session_id}
    /\ Return(p, 204, None)
    /\ UNCHANGED <<service_vars, graph_papers, session_papers, next_oid, upsert_log, clock,
                   arxiv_rev>>

\* ---------------------------------------------------------- specifications
Build(p) ==
    \/ StartBuild(p) \/ RejectId(p) \/ RejectMode(p)
    \/ SeedFetchFails(p) \/ SeedNotFound(p) \/ SeedFound(p)
    \/ GroundingFails(p) \/ GroundingDiscovers(p)
    \/ ReferencesFail(p) \/ ReferencesCrash(p) \/ ReferencesDiscovered(p)
    \/ EmbedFails(p) \/ EmbedReturns(p) \/ Upsert(p) \/ Respond(p)

Create(p) ==
    \/ InsertSession(p) \/ InsertSessionFails(p)
    \/ InsertSessionPaper(p) \/ InsertSessionPaperFails(p)

Get(p) == StartGet(p) \/ GetFind(p) \/ GetTouch(p) \/ GetRows(p) \/ GetPapers(p)

List(p) == StartList(p) \/ ListFind(p)

Rename(p) == StartRename(p) \/ RenameFind(p) \/ RenameWrite(p)

Delete(p) == StartDelete(p) \/ DeleteFind(p) \/ DeleteRows(p) \/ DeleteSession(p)

Next == ArxivRevises \/ \E p \in {1} : Build(p) \/ Create(p) \/ Get(p)

Spec == Init /\ [][Next]_vars


\* SpecGraph: the store phase, the link builder and the reload on graphs of
\* up to MaxGraphNodes nodes.  It starts where EmbedReturns or EmbedFails
\* leaves a build of seed 1 whose discovery found the papers 2..n: the first
\* k nodes have an embedding, any of Vectors.  Handler 1 runs the build and
\* then the reload; every write of the session succeeds (SpecBuild and
\* SpecReload have the failing ones).
GraphNodes(n) ==
    [x \in 1..n |->
        IF x = 1 THEN build_root_node(1, Meta(1, 1))
        ELSE GroundingNode([arxiv_id |-> x, title |-> <<"found", x>>], <<>>)]

InitGraph ==
    /\ ServiceUp
    /\ \E n \in 1..MaxGraphNodes, op \in {"graph", "create"} :
       \E k \in 0..n :
       \E embeddings \in [1..k -> Vectors] :
          /\ req = [p \in Procs |->
                IF p = 1
                THEN [NoReq EXCEPT !.op = op,
                         !.user = IF op = "create" THEN 1 ELSE 0,
                         !.paper_id = 1, !.mode = "grounding",
                         !.nodes = GraphNodes(n), !.embeddings = embeddings,
                         !.embed_failed = (k = 0), !.now = 1, !.i = 1]
                ELSE NoReq]
          /\ pc = [p \in Procs |->
                IF p = 1 THEN (IF k = 0 THEN "respond" ELSE "upsert") ELSE "idle"]
    /\ resp = [p \in Procs |-> NoResp]
    /\ graph_papers = <<>>
    /\ sessions = {}
    /\ session_papers = <<>>
    /\ clock = 1
    /\ next_oid = 1
    /\ arxiv_rev = 1
    /\ upsert_log = <<>>

NextGraph ==
    \E p \in {1} :
        \/ Upsert(p) \/ Respond(p) \/ Get(p)
        \/ InsertSession(p) \/ InsertSessionPaper(p)

SpecGraph == InitGraph /\ [][NextGraph]_vars


\* SpecReload: the same graphs, with the reload served by a second handler, so
\* that the response of the build is still at hand when the reload answers.
NextReload ==
    \/ \E p \in {1} : Upsert(p) \/ Respond(p) \/ Create(p)
    \/ \E p \in {2} : Get(p)

SpecReload == InitGraph /\ [][NextReload]_vars


\* SpecBuild: the last request of the service, a build or a session
\* creation, on an empty store.  It starts after MaxRequests - 1 requests
\* that get_graph rejected for their empty paper_id.
InitBuild ==
    /\ ServiceUp
    /\ pc = [p \in Procs |-> "idle"]
    /\ req = [p \in Procs |-> NoReq]
    /\ resp = [p \in Procs |->
            IF p = 1
            THEN [status |-> 422, body |-> None,
                  by |-> [NoReq EXCEPT !.op = "graph", !.mode = "grounding"]]
            ELSE NoResp]
    /\ graph_papers = <<>>
    /\ sessions = {}
    /\ session_papers = <<>>
    /\ clock = MaxRequests - 1
    /\ next_oid = 1
    /\ arxiv_rev = 1
    /\ upsert_log = <<>>

NextBuild == ArxivRevises \/ \E p \in {1} : Build(p) \/ Create(p)

SpecBuild == InitBuild /\ [][NextBuild]_vars

\* SpecSessions: the session operations, one request at a time, on a
\* database two session creations left behind before the behaviour begins.
\* Session 1, of user 1, was built at time -1 from seed 1 and found paper 2;
\* session 2, of any user, was built at time 0 from seed 2 and found nothing.
EarlierUpserts ==
    <<[arxiv_id |-> 1,
       set |-> SetFields(build_root_node(1, Meta(1, 1)), <<1, 0>>, -1),
       now |-> -1],
      [arxiv_id |-> 2,
       set |-> SetFields(GroundingNode([arxiv_id |-> 2, title |-> <<"found", 2>>],
                                       [id \in {2} |-> Meta(2, 1)]),
                         <<1, 1>>, -1),
       now |-> -1],
      [arxiv_id |-> 2,
       set |-> SetFields(build_root_node(2, Meta(2, 1)), <<0, 1>>, 0),
       now |-> 0]>>

RECURSIVE ApplyUpserts(_, _)
ApplyUpserts(coll, ups) ==
    IF ups = <<>> THEN coll
    ELSE ApplyUpserts(UpdateOneUpsert(coll, Head(ups).arxiv_id, Head(ups).set,
                                      Head(ups).now),
                      Tail(ups))

EarlierSession(oid, user, seed, now) ==
    WithId([user_id |-> user, title |-> None, seed_paper_id |-> seed,
            mode |-> "grounding", created_at |-> now, last_accessed |-> now],
           oid)

EarlierRow(oid, arxiv_id, seed, now) ==
    [session_id |-> oid, arxiv_id |-> arxiv_id, is_seed |-> (arxiv_id = seed),
     added_at |-> now]

InitSessions ==
    /\ ServiceUp
    /\ pc = [p \in Procs |-> "idle"]
    /\ req = [p \in Procs |-> NoReq]
    /\ resp = [p \in Procs |-> NoResp]
    /\ graph_papers = ApplyUpserts(<<>>, EarlierUpserts)
    /\ upsert_log = EarlierUpserts
    /\ \E user \in Users :
          sessions = {EarlierSession(1, 1, 1, -1), EarlierSession(2, user, 2, 0)}
    /\ session_papers = <<EarlierRow(1, 1, 1, -1), EarlierRow(1, 2, 1, -1),
                          EarlierRow(2, 2, 2, 0)>>
    /\ clock = 0
    /\ next_oid = 3
    /\ arxiv_rev = 1

NextSessions == \E p \in Procs : Get(p) \/ List(p) \/ Rename(p) \/ Delete(p)

SpecSessions == InitSessions /\ [][NextSessions]_vars

\* SpecRace: two session requests in flight on the database of SpecSessions,
\* each a get, a rename or a delete of session 1 or 2 whose find_one has
\* been sent; every interleaving of their database operations follows.
RaceRequests ==
    {[NoReq EXCEPT !.op = op, !.user = user, !.session_id = oid,
                   !.title = IF op = "rename" THEN "renamed" ELSE None]
        : op \in {"get", "rename", "delete"}, user \in Users, oid \in 1..2}

InitRace ==
    /\ ServiceUp
    /\ req \in [Procs -> RaceRequests]
    /\ pc = [p \in Procs |-> req[p].op \o "_find"]
    /\ resp = [p \in Procs |-> NoResp]
    /\ graph_papers = ApplyUpserts(<<>>, EarlierUpserts)
    /\ upsert_log = EarlierUpserts
    /\ \E user \in Users :
          sessions = {EarlierSession(1, 1, 1, -1), EarlierSession(2, user, 2, 0)}
    /\ session_papers = <<EarlierRow(1, 1, 1, -1), EarlierRow(1, 2, 1, -1),
                          EarlierRow(2, 2, 2, 0)>>
    /\ clock = 2
    /\ next_oid = 3
    /\ arxiv_rev = 1

NextRace ==
    \E p \in Procs :
        \/ GetFind(p) \/ GetTouch(p) \/ GetRows(p) \/ GetPapers(p)
        \/ RenameFind(p) \/ RenameWrite(p)
        \/ DeleteFind(p) \/ DeleteRows(p) \/ DeleteSession(p)

SpecRace == InitRace /\ [][NextRace]_vars

\* ---- a session request arriving while create_session still writes ----
\* POST /sessions awaits between insert_one(session_doc) and every
\* insert_one(junction_doc) (main.py:554-564), so a second request of any
\* user for the same session id is served in between: handler 1 is past
\* the build, handler 2 has a get, rename or delete in flight for the id
\* the insert is about to give out.
InitCreateRace ==
    /\ ServiceUp
    /\ \E n \in 1..(MaxCands + 1) :
       \E k \in {0, n} :
       \E user \in Users, op \in {"get", "rename", "delete"} :
          /\ req = [p \in Procs |->
                IF p = 1
                THEN [NoReq EXCEPT !.op = "create", !.user = 1,
                         !.paper_id = 1, !.mode = "grounding",
                         !.nodes = GraphNodes(n),
                         !.embeddings = [x \in 1..k |-> <<1, 1>>],
                         !.embed_failed = (k = 0), !.now = 1, !.i = 1]
                ELSE [NoReq EXCEPT !.op = op, !.user = user,
                         !.session_id = 1,
                         !.title = IF op = "rename" THEN "renamed" ELSE None]]
          /\ pc = [p \in Procs |->
                IF p = 1 THEN (IF k = 0 THEN "respond" ELSE "upsert")
                ELSE req[p].op \o "_find"]
    /\ resp = [p \in Procs |-> NoResp]
    /\ graph_papers = <<>>
    /\ sessions = {}
    /\ session_papers = <<>>
    /\ clock = 1
    /\ next_oid = 1
    /\ arxiv_rev = 1
    /\ upsert_log = <<>>

NextCreateRace ==
    \/ \E p \in {1} : \/ Upsert(p) \/ Respond(p) \/ Create(p)
    \/ \E p \in {2} :
          \/ GetFind(p) \/ GetTouch(p) \/ GetRows(p) \/ GetPapers(p)
          \/ RenameFind(p) \/ RenameWrite(p)
          \/ DeleteFind(p) \/ DeleteRows(p) \/ DeleteSession(p)

SpecCreateRace == InitCreateRace /\ [][NextCreateRace]_vars

\* SpecConc: two builds (GET /graph) in their store phase.  It starts where
\* EmbedReturns leaves each of them: a seed, at most one more node, an
\* embedding for the first k nodes, and the time each read; build 1 fetched
\* its metadata and read its time no later than build 2.  Every interleaving of their upserts follows.
ConcNodes(seed, v, other) ==
    CASE other = "none" -> <<build_root_node(seed, Meta(seed, v))>>
      [] OTHER ->
            <<build_root_node(seed, Meta(seed, v)),
              GroundingNode([arxiv_id |-> (seed % NPapers) + 1,
                             title |-> <<"found", (seed % NPapers) + 1>>],
                            [id \in {(seed % NPapers) + 1} |-> Meta(id, v)])>>

ConcRequests(p) ==
    {[NoReq EXCEPT !.op = "graph", !.paper_id = seed, !.mode = "grounding",
                   !.nodes = ConcNodes(seed, v, other),
                   !.embeddings = embeddings, !.now = now, !.i = 1]
        : seed \in PaperIds,
          v \in IF p = 1 THEN {1} ELSE 1..NVersions,
          other \in {"none", "enriched"},
          embeddings \in [1..1 -> SvcVectors] \cup [1..2 -> SvcVectors],
          now \in IF p = 1 THEN {1} ELSE {1, 2}}

InitConc ==
    /\ ServiceUp
    /\ req \in [Procs -> UNION {ConcRequests(p) : p \in Procs}]
    /\ \A p \in Procs :
          /\ req[p] \in ConcRequests(p)
          /\ Len(req[p].embeddings) <= Len(req[p].nodes)
    /\ pc = [p \in Procs |-> "upsert"]
    /\ resp = [p \in Procs |-> NoResp]
    /\ graph_papers = <<>>
    /\ sessions = {}
    /\ session_papers = <<>>
    /\ clock = 2
    /\ next_oid = 1
    /\ arxiv_rev = NVersions
    /\ upsert_log = <<>>

NextConc == \E p \in Procs : Upsert(p) \/ Respond(p)

SpecConc == InitConc /\ [][NextConc]_vars


\* SpecCanon: the first statement of get_graph and create_session, on seed
\* links as the caller types them.  A link is written with up to MaxPieces
\* of the Pieces in any order, well-formed or not, or it is an arXiv id with
\* or without "arxiv:" prefix, version suffix and url around it.
Id1 == <<"1", "7", "0", "6", ".", "0", "3", "7", "6", "2">>
Id2 == <<"2", "3", "0", "1", ".", "1", "2", "3", "4", "5">>
Host == <<"h", "t", "t", "p", "s", ":", "/", "/",
          "a", "r", "x", "i", "v", ".", "o", "r", "g">>

Pieces ==
    {Id1, Host, AbsSegment, PdfSegment, PdfSuffix, <<"/">>, <<" ">>,
     <<"a", "r", "X", "i", "v", ":">>, <<"v">>, <<"5">>, <<"V">>}

RECURSIVE Concat(_)
Concat(ps) == IF ps = <<>> THEN <<>> ELSE Head(ps) \o Concat(Tail(ps))

PieceLinks == {Concat(ps) : ps \in SeqsUpTo(Pieces, MaxPieces)}

Decorations ==
    [id : {Id1, Id2},
     prefix : {<<>>, <<"a", "r", "X", "i", "v", ":">>,
               <<"A", "R", "X", "I", "V", ":">>},
     version : {<<>>, <<"v", "5">>, <<"v", "1", "2">>},
     url : {"none", "abs", "abs/", "pdf", "pdf.pdf"}]

DecoratedLink(d) ==
    LET x == d.prefix \o d.id \o d.version
    IN  CASE d.url = "none" -> x
          [] d.url = "abs" -> Host \o AbsSegment \o x
          [] d.url = "abs/" -> Host \o AbsSegment \o x \o <<"/">>
          [] d.url = "pdf" -> Host \o PdfSegment \o x
          [] d.url = "pdf.pdf" -> Host \o PdfSegment \o x \o PdfSuffix

Links == PieceLinks \cup {DecoratedLink(d) : d \in Decorations}

InitCanon ==
    /\ ServiceUp
    /\ \E op \in {"graph", "create"}, link \in Links :
          req = [p \in Procs |->
                    IF p = 1 THEN [NoReq EXCEPT !.op = op, !.link = link]
                    ELSE NoReq]
    /\ pc = [p \in Procs |-> IF p = 1 THEN "canonicalize" ELSE "idle"]
    /\ resp = [p \in Procs |-> NoResp]
    /\ graph_papers = <<>>
    /\ sessions = {}
    /\ session_papers = <<>>
    /\ clock = 1
    /\ next_oid = 1
    /\ arxiv_rev = 1
    /\ upsert_log = <<>>

\* `paper_id = canonicalize_paper_id(link)`, `if not paper_id: raise
\* HTTPException(422)` (main.py:506-508, 534-536)
CanonicalizeRejects(p) ==
    /\ pc[p] = "canonicalize"
    /\ canonicalize_paper_id(req[p].link) = <<>>
    /\ Return(p, 422, None)
    /\ UNCHANGED <<service_vars, store_vars, clock, arxiv_rev>>

\* `paper_id = canonicalize_paper_id(link)` gives an id, with which
\* _generate_graph_internal is called (main.py:506-510, 534-539)
CanonicalizeAccepts(p) ==
    /\ pc[p] = "canonicalize"
    /\ canonicalize_paper_id(req[p].link) # <<>>
    /\ req' = [req EXCEPT ![p].paper_id_chars = canonicalize_paper_id(req[p].link)]
    /\ pc' = [pc EXCEPT ![p] = "canonicalized"]
    /\ UNCHANGED <<service_vars, resp, store_vars, clock, arxiv_rev>>

NextCanon == \E p \in {1} : CanonicalizeRejects(p) \/ CanonicalizeAccepts(p)

SpecCanon == InitCanon /\ [][NextCanon]_vars


\* ------------------------------------------------------ startup, shutdown
\* The environment the process may be started with.  A credential is TRUE
\* when it is set to a text that is not blank; MONGODB_CONNECT_RETRIES is
\* <<>> when unset and <<n>> when set to the integer n.
Environments ==
    [JWT_SECRET_KEY : BOOLEAN, MONGODB_URI : BOOLEAN,
     MONGODB_DB_NAME : BOOLEAN, OPENAI_API_KEY : BOOLEAN,
     MONGODB_CONNECT_RETRIES : {<<>>} \cup {<<n>> : n \in 0..MaxRetries},
     MONGODB_ENSURE_INDEXES : BOOLEAN]

\* _env_int("MONGODB_CONNECT_RETRIES", 3) where it returns
\* (database.py:33-43, 79)
retries == IF env.MONGODB_CONNECT_RETRIES = <<>> THEN 3
           ELSE env.MONGODB_CONNECT_RETRIES[1]

\* What `await client.admin.command("ping")` and the create_index calls may
\* raise: ServerSelectionTimeoutError and OperationFailure are PyMongoErrors,
\* "PyMongoError" is any other of them, "Exception" anything else.
MongoExceptions ==
    {"ServerSelectionTimeoutError", "OperationFailure", "PyMongoError",
     "Exception"}

\* A test that takes every error for a connectivity error.
IsConnectivityErrorAlways(exc) == TRUE

\* _is_connectivity_error (database.py:70-71)
IsConnectivityError(exc) == exc = "ServerSelectionTimeoutError"

\* The lifespan raises: the app does not start.
Fatal(error) == lifespan' = [lifespan EXCEPT !.pc = "failed", !.error = error]

\* The process is started: modules are imported, database.client is None,
\* database.db is not bound yet, the lifespan begins (database.py:12,
\* main.py:25-28).
InitStartup ==
    /\ env \in Environments
    /\ client = None
    /\ db = "unbound"
    /\ lifespan = [pc |-> "validate_auth_config", attempt |-> 0,
                   last_connect_error |-> None, error |-> None]
    /\ pc = [p \in Procs |-> "idle"]
    /\ req = [p \in Procs |-> NoReq]
    /\ resp = [p \in Procs |-> NoResp]
    /\ graph_papers = <<>>
    /\ sessions = {}
    /\ session_papers = <<>>
    /\ clock = 0
    /\ next_oid = 1
    /\ arxiv_rev = 1
    /\ upsert_log = <<>>

request_vars == <<pc, req, resp, store_vars, clock, arxiv_rev>>

\* validate_auth_config() (main.py:28): without the auth secret the lifespan
\* raises.
ValidateAuthConfig ==
    /\ lifespan.pc = "validate_auth_config"
    /\ IF env.JWT_SECRET_KEY
       THEN lifespan' = [lifespan EXCEPT !.pc = "connect_db"]
       ELSE Fatal("AUTH_CONFIG_ERROR")
    /\ UNCHANGED <<request_vars, env, client, db>>

\* connect_db up to its loop (database.py:74-91): _require_env raises
\* without MONGODB_URI or MONGODB_DB_NAME, _env_int raises when
\* MONGODB_CONNECT_RETRIES is below 1.
Preflight ==
    /\ lifespan.pc = "connect_db"
    /\ IF ~ env.MONGODB_URI \/ ~ env.MONGODB_DB_NAME \/ retries < 1
       THEN Fatal("DB_CONFIG_ERROR")
       ELSE lifespan' = [lifespan EXCEPT !.pc = "attempt", !.attempt = 1]
    /\ UNCHANGED <<request_vars, env, client, db>>

\* An attempt begins: the client is made, db is its database, and the ping
\* is sent (database.py:93-105).
Attempt ==
    /\ lifespan.pc = "attempt"
    /\ client' = "AsyncIOMotorClient"
    /\ db' = "Database"
    /\ lifespan' = [lifespan EXCEPT !.pc = "ping"]
    /\ UNCHANGED <<request_vars, env>>

\* The ping answers: the loop is left (database.py:105-107, 133-134).
PingAnswers ==
    /\ lifespan.pc = "ping"
    /\ lifespan' = [lifespan EXCEPT !.pc = "ensure_indexes",
                                    !.last_connect_error = None]
    /\ UNCHANGED <<request_vars, env, client, db>>

\* The ping raises (database.py:108-131): the client is closed, both handles
\* become None; an OperationFailure raises DB_AUTH_ERROR, a connectivity
\* error sleeps and goes on with the next attempt if there is one and
\* raises DB_CONNECT_ERROR if not, another PyMongoError raises
\* DB_CONNECT_ERROR, anything else is raised as it is.
PingRaises ==
    /\ lifespan.pc = "ping"
    /\ client' = None
    /\ db' = None
    /\ \E exc \in MongoExceptions :
          IF exc = "OperationFailure" THEN Fatal("DB_AUTH_ERROR")
          ELSE IF IsConnectivityError(exc)
          THEN IF lifespan.attempt < retries
               THEN lifespan' = [lifespan EXCEPT !.pc = "sleep",
                                                !.last_connect_error = exc]
               ELSE lifespan' = [lifespan EXCEPT !.pc = "failed",
                                                !.last_connect_error = exc,
                                                !.error = "DB_CONNECT_ERROR"]
          ELSE IF exc = "PyMongoError" THEN Fatal("DB_CONNECT_ERROR")
          ELSE Fatal(exc)
    /\ UNCHANGED <<request_vars, env>>

\* asyncio.sleep(retry_delay_seconds) is over: `continue` (database.py:124-126)
Sleep ==
    /\ lifespan.pc = "sleep"
    /\ lifespan' = [lifespan EXCEPT !.pc = "attempt", !.attempt = @ + 1]
    /\ UNCHANGED <<request_vars, env, client, db>>

\* The indexes are there, or MONGODB_ENSURE_INDEXES is off: connect_db
\* returns and the app serves (database.py:136-157, 170; main.py:29-30).
\* The unique indexes are the ones UpdateOneUpsert and InsertSessionPaper
\* rely on.
EnsureIndexes ==
    /\ lifespan.pc = "ensure_indexes"
    /\ lifespan' = [lifespan EXCEPT !.pc = "serving"]
    /\ UNCHANGED <<request_vars, env, client, db>>

\* A create_index raises (database.py:158-168): the client is closed, both
\* handles become None, DB_INDEX_ERROR or the error itself is raised.
EnsureIndexesRaises ==
    /\ lifespan.pc = "ensure_indexes"
    /\ env.MONGODB_ENSURE_INDEXES
    /\ client' = None
    /\ db' = None
    /\ \E exc \in MongoExceptions :
          IF exc = "Exception" THEN Fatal(exc) ELSE Fatal("DB_INDEX_ERROR")
    /\ UNCHANGED <<request_vars, env>>

connect_db ==
    \/ Preflight \/ Attempt \/ PingAnswers \/ PingRaises \/ Sleep
    \/ EnsureIndexes \/ EnsureIndexesRaises

\* The app shuts down when no request is in flight: close_db
\* (main.py:30-31, database.py:173-178).
close_db ==
    /\ lifespan.pc = "serving"
    /\ \A p \in Procs : pc[p] = "idle"
    /\ client' = None
    /\ db' = None
    /\ lifespan' = [lifespan EXCEPT !.pc = "closed"]
    /\ UNCHANGED <<request_vars, env>>

\* GET /graph/search up to its first await (main.py:765-772)
StartSearch(p) ==
    /\ lifespan.pc = "serving"
    /\ pc[p] = "idle"
    /\ \A q \in Procs : pc[q] = "idle"
    /\ clock < MaxRequests
    /\ clock' = clock + 1
    /\ req' = [req EXCEPT ![p] = [NoReq EXCEPT !.op = "search"]]
    /\ resp' = [resp EXCEPT ![p] = NoResp]
    /\ pc' = [pc EXCEPT ![p] = "search_embed"]
    /\ UNCHANGED <<service_vars, store_vars, arxiv_rev>>

\* generate_embedding without the key: HTTPException(500) (papers.py:50-51)
SearchKeyMissing(p) ==
    /\ pc[p] = "search_embed"
    /\ ~ env.OPENAI_API_KEY
    /\ Return(p, 500, "OPENAI_API_KEY is not set")
    /\ UNCHANGED <<service_vars, store_vars, clock, arxiv_rev>>

\* generate_embedding with the key: the provider answers with an embedding,
\* or with another status than 200 (papers.py:53-69).
SearchEmbeds(p) ==
    /\ pc[p] = "search_embed"
    /\ env.OPENAI_API_KEY
    /\ \/ /\ pc' = [pc EXCEPT ![p] = "search_aggregate"]
          /\ UNCHANGED <<req, resp>>
       \/ Return(p, 502, "OpenAI embedding request failed")
    /\ UNCHANGED <<service_vars, store_vars, clock, arxiv_rev>>

\* The $vectorSearch aggregation answers with papers of the store, each of
\* which has an embedding (main.py:773-800).
SearchAggregates(p) ==
    /\ pc[p] = "search_aggregate"
    /\ Return(p, 200, [x \in DOMAIN graph_papers |-> graph_papers[x].arxiv_id])
    /\ UNCHANGED <<service_vars, store_vars, clock, arxiv_rev>>

Search(p) ==
    \/ StartSearch(p) \/ SearchKeyMissing(p) \/ SearchEmbeds(p)
    \/ SearchAggregates(p)

NextStartup ==
    \/ ValidateAuthConfig
    \/ connect_db
    \/ close_db
    \/ \E p \in Procs : Search(p)

SpecStartup == InitStartup /\ [][NextStartup]_vars

\* Every await of connect_db comes back: the ping answers or raises within
\* serverSelectionTimeoutMS, the sleep ends, the index calls return.
SpecConnect == SpecStartup /\ WF_vars(ValidateAuthConfig) /\ WF_vars(connect_db)

\* ------------------------------------------------------------------ claims
\* The graphs handed out: what get_graph and get_session returned, and the
\* graph _generate_graph_internal returned to create_session.  Each comes
\* with the node list and the node_embeddings its links were built from.
BuildResults ==
    {[graph |-> resp[p].body, nodes |-> resp[p].by.nodes,
      emb |-> NodeEmbeddings(resp[p].by.nodes, resp[p].by.embeddings),
      by |-> resp[p].by]
        : p \in {q \in Procs : resp[q].status = 200 /\ resp[q].by.op = "graph"}}
    \cup
    {[graph |-> req[p].graph, nodes |-> req[p].nodes,
      emb |-> NodeEmbeddings(req[p].nodes, req[p].embeddings),
      by |-> req[p]]
        : p \in {q \in Procs : pc[q] = "insert_session"}}

StoredEmbeddings(ids) ==
    [id \in {graph_papers[x].arxiv_id : x \in DOMAIN graph_papers} \cap ids |->
        graph_papers[CHOOSE x \in DOMAIN graph_papers :
                        graph_papers[x].arxiv_id = id].embedding]

GetResults ==
    {[graph |-> resp[p].body, nodes |-> resp[p].body.nodes,
      emb |-> StoredEmbeddings({resp[p].body.nodes[x].id :
                                   x \in DOMAIN resp[p].body.nodes}),
      by |-> resp[p].by]
        : p \in {q \in Procs : resp[q].status = 200 /\ resp[q].by.op = "get"}}

GraphResults == BuildResults \cup GetResults

\* The links of g that join a and b, in either direction.
LinksOfPair(g, a, b) ==
    {x \in DOMAIN g.links : {g.links[x].source, g.links[x].target} = {a, b}}

\* Selection[i]: the nodes that node i of the result selects, those among
\* the top K_NEIGHBORS of i's ranked similarities.
Selection(res) ==
    [i \in DOMAIN res.nodes |->
        IF res.nodes[i].id \in DOMAIN res.emb
        THEN LET top == TopK(Similarities(res.nodes, res.emb, i))
             IN  {top[x].j : x \in DOMAIN top}
        ELSE {}]

EmbeddedCount(res) ==
    Cardinality({x \in DOMAIN res.nodes : res.nodes[x].id \in DOMAIN res.emb})

\* C1: a graph returned by the build or by get_session has at most one link
\* per unordered pair of node ids.
C1_OneLinkPerPair ==
    \A res \in GraphResults :
        \A x, y \in DOMAIN res.graph.links :
            {res.graph.links[x].source, res.graph.links[x].target}
              = {res.graph.links[y].source, res.graph.links[y].target} => x = y

\* C1 witness: get_session returned a graph of at least five nodes in which
\* two nodes selected each other, and the pair has its link.
C1_Witness ==
    \E res \in GetResults :
        /\ Len(res.nodes) >= 5
        /\ LET sel == Selection(res)
           IN  \E i, j \in DOMAIN res.nodes :
                  /\ i # j /\ j \in sel[i] /\ i \in sel[j]
                  /\ LinksOfPair(res.graph, res.nodes[i].id, res.nodes[j].id) # {}

\* C2: in a built graph, two distinct embedded nodes of which one selects the
\* other (or both do) are joined by exactly one link.
C2_SelectedPairLinkedOnce ==
    \A res \in BuildResults :
        LET sel == Selection(res)
        IN  \A i, j \in DOMAIN res.nodes :
                (i # j /\ (j \in sel[i] \/ i \in sel[j]))
                => Cardinality(LinksOfPair(res.graph, res.nodes[i].id,
                                           res.nodes[j].id)) = 1

\* C2 witness: a built graph in which A selects B, B does not select A, and
\* another pair selects each other.
C2_Witness ==
    \E res \in BuildResults :
        LET sel == Selection(res)
        IN  /\ \E i, j \in DOMAIN res.nodes :
                  i # j /\ j \in sel[i] /\ i \notin sel[j]
            /\ \E i, j \in DOMAIN res.nodes :
                  i # j /\ j \in sel[i] /\ i \in sel[j]

\* C3: a node of a build that got no embedding is in the returned node list
\* and is neither source nor target of a returned link; in a graph returned
\* by get_session every link joins two nodes of its node list.
C3_UnembeddedIsolated ==
    /\ \A res \in BuildResults :
          /\ res.graph.nodes = res.by.nodes
          /\ \A x \in DOMAIN res.by.nodes :
                x > Len(res.by.embeddings) =>
                    \A l \in DOMAIN res.graph.links :
                        /\ res.graph.links[l].source # res.by.nodes[x].id
                        /\ res.graph.links[l].target # res.by.nodes[x].id
    /\ \A res \in GetResults :
          \A l \in DOMAIN res.graph.links :
              {res.graph.links[l].source, res.graph.links[l].target}
                  \subseteq DOMAIN res.emb

\* C3 witness: a built graph with links in which the embedding list was
\* shorter than the node list.
C3_Witness ==
    \E res \in BuildResults :
        /\ res.graph.links # <<>>
        /\ Len(res.by.embeddings) < Len(res.by.nodes)
        /\ Len(res.by.embeddings) >= 2


\* The ids of a node list.
NodeIds(nodes) == [x \in DOMAIN nodes |-> nodes[x].id]

\* The first occurrences of the elements of s, in order.
FirstSeen(s) ==
    SelectSeq([x \in DOMAIN s |-> x],
              LAMBDA x : \A y \in 1..(x - 1) : s[y] # s[x])

FirstSeenIds(s) == [x \in DOMAIN FirstSeen(s) |-> s[FirstSeen(s)[x]]]

\* The candidate ids discovery delivered to build r, in order: the ids the
\* search found, or the arXiv ids of the references.
CandidateIds(r) ==
    IF r.mode = "grounding"
    THEN [x \in DOMAIN r.discovered |-> r.discovered[x].arxiv_id]
    ELSE LET with_id == SelectSeq(r.raw_references, LAMBDA raw : raw.arxiv # NoId)
         IN  [x \in DOMAIN with_id |-> with_id[x].arxiv]

C5_ExactlyOneRoot ==
    \A res \in GraphResults :
        /\ Cardinality({x \in DOMAIN res.graph.nodes :
                           res.graph.nodes[x].is_root}) = 1
        /\ \A x \in DOMAIN res.graph.nodes :
              res.graph.nodes[x].is_root
                  => res.graph.nodes[x].id = res.graph.seed_id

Succeeded(p) == resp[p].status \in {200, 201}

Finished(p) == resp[p].status # 0

\* The build of create_session completed and a database write of the
\* session raised afterwards.
StoreFailed(p) == resp[p].status = 500 /\ resp[p].body = "PyMongoError"

\* C6: a grounding build whose search raised does not fail (the request ends
\* with success, unless a session write raised after the build), and its
\* graph has the seed node alone, partial_data set and an error string that
\* is not empty.
C6_GroundingFailureDegrades ==
    /\ \A p \in Procs :
          (Finished(p) /\ resp[p].by.mode = "grounding"
                       /\ resp[p].by.disc_exc # None) =>
              (Succeeded(p) \/ StoreFailed(p))
    /\ \A res \in BuildResults :
          (res.by.mode = "grounding" /\ res.by.disc_exc # None) =>
              /\ Len(res.graph.nodes) = 1
              /\ res.graph.nodes[1].id = res.by.paper_id
              /\ res.graph.nodes[1].is_root
              /\ res.graph.partial_data
              /\ res.graph.references_error \notin {None, ""}

\* C6 witness: GET /graph returned the graph of a grounding build whose search
\* raised an exception with an empty text.
C6_Witness ==
    \E p \in Procs :
        /\ resp[p].status = 200
        /\ resp[p].by.op = "graph"
        /\ resp[p].by.mode = "grounding"
        /\ resp[p].by.disc_exc # None
        /\ resp[p].body.references_error = "Google Search grounding failed: "

\* The messages summarize_references_error classifies a failure into.
ReferenceErrorTaxonomy ==
    {"Semantic Scholar rate limit reached (HTTP 429). Retry-After: 30.",
     "Semantic Scholar rate limit reached (HTTP 429). Try again shortly.",
     "Timed out while fetching references from Semantic Scholar.",
     "Semantic Scholar request failed with HTTP 500.",
     "Failed to fetch references from Semantic Scholar.",
     "Failed to fetch references.",
     "Failed to parse reference metadata from arXiv."}

\* C7: a references build whose provider call failed, in whatever way, does
\* not fail (the request ends with success, unless a session write raised
\* after the build), and its graph has the seed node, partial_data set and an
\* error message of the taxonomy.
C7_ReferencesFailureDegrades ==
    /\ \A p \in Procs :
          (Finished(p) /\ resp[p].by.mode = "references"
                       /\ resp[p].by.disc_exc # None) =>
              (Succeeded(p) \/ StoreFailed(p))
    /\ \A res \in BuildResults :
          (res.by.mode = "references" /\ res.by.disc_exc # None) =>
              /\ res.graph.nodes[1].id = res.by.paper_id
              /\ res.graph.partial_data
              /\ res.graph.references_error \in ReferenceErrorTaxonomy

\* C8: a build whose embedding call raised does not fail (the request ends
\* with success, unless a session write raised after the build), and its
\* graph has every node discovery produced and no link.
C8_EmbeddingFailureDegrades ==
    /\ \A p \in Procs :
          (Finished(p) /\ resp[p].by.embed_failed) =>
              (Succeeded(p) \/ StoreFailed(p))
    /\ \A res \in BuildResults :
          res.by.embed_failed =>
              /\ res.graph.nodes = res.by.nodes
              /\ res.graph.links = <<>>

\* C8 witness: GET /graph returned a graph of two nodes after the embedding
\* call raised.
C8_Witness ==
    \E p \in Procs :
        /\ resp[p].status = 200
        /\ resp[p].by.op = "graph"
        /\ resp[p].by.embed_failed
        /\ Len(resp[p].body.nodes) = 2

\* The upserts of id applied so far, as positions of upsert_log.
UpsertsOf(id) == {x \in DOMAIN upsert_log : upsert_log[x].arxiv_id = id}

FirstUpsert(id) == CHOOSE x \in UpsertsOf(id) : \A y \in UpsertsOf(id) : x <= y

LastUpsert(id) == CHOOSE x \in UpsertsOf(id) : \A y \in UpsertsOf(id) : y <= x

\* The fields of a stored paper that $set writes.
SetPart(doc) ==
    [title |-> doc.title, summary |-> doc.summary, url |-> doc.url,
     authors |-> doc.authors, published |-> doc.published,
     embedding |-> doc.embedding, updated_at |-> doc.updated_at]

\* C9: a stored paper has the creation timestamp of the first upsert of its
\* id, and the title, summary, url, authors, published date, embedding and
\* update timestamp of the latest one.
C9_UpsertKeepsCreation ==
    \A x \in DOMAIN graph_papers :
        LET doc == graph_papers[x]
        IN  /\ UpsertsOf(doc.arxiv_id) # {}
            /\ doc.created_at = upsert_log[FirstUpsert(doc.arxiv_id)].now
            /\ SetPart(doc) = upsert_log[LastUpsert(doc.arxiv_id)].set

\* C9 witness: a paper upserted twice, later and with another title.
C9_Witness ==
    \E x \in DOMAIN graph_papers :
        LET id == graph_papers[x].arxiv_id
        IN  /\ Cardinality(UpsertsOf(id)) = 2
            /\ upsert_log[FirstUpsert(id)].set.title
                   # upsert_log[LastUpsert(id)].set.title
            /\ graph_papers[x].created_at < graph_papers[x].updated_at

\* C10: whatever the interleaving of two builds' upserts, every upserted id
\* has exactly one entry in graph_papers, and the entry's metadata and
\* embedding are those of one upsert of that id (the last one applied).
C10_ConcurrentUpsertAtomic ==
    \A id \in {upsert_log[x].arxiv_id : x \in DOMAIN upsert_log} :
        LET entries == {x \in DOMAIN graph_papers : graph_papers[x].arxiv_id = id}
        IN  /\ Cardinality(entries) = 1
            /\ \A x \in entries :
                  /\ \E u \in UpsertsOf(id) :
                        SetPart(graph_papers[x]) = upsert_log[u].set
                  /\ SetPart(graph_papers[x]) = upsert_log[LastUpsert(id)].set

\* C10 witness: both builds have finished, they upserted the same two ids with
\* different metadata and embeddings, and their upserts were interleaved.
C10_Witness ==
    /\ \A p \in Procs : resp[p].status = 200
    /\ Len(upsert_log) = 4
    /\ Len(graph_papers) = 2
    /\ upsert_log[1].arxiv_id = upsert_log[2].arxiv_id
    /\ upsert_log[1].set.title # upsert_log[2].set.title
    /\ upsert_log[1].set.embedding # upsert_log[2].set.embedding


\* The junction rows of session oid, in insertion order.
RowsOf(oid) == SelectSeq(session_papers, LAMBDA row : row.session_id = oid)

\* C11: when create_session has ended, either it returned 201 and the session
\* and one junction row per node exist, or it failed and neither the session
\* nor any junction row of it exists.
C11_CreateAllOrNothing ==
    \A p \in Procs :
        (Finished(p) /\ resp[p].by.op = "create") =>
            IF resp[p].status = 201
            THEN /\ \E s \in sessions : s._id = resp[p].body.id
                 /\ Len(RowsOf(resp[p].body.id)) = Len(resp[p].by.nodes)
            ELSE /\ ~ \E s \in sessions : s._id = resp[p].by.session_id
                 /\ RowsOf(resp[p].by.session_id) = <<>>


SessionOps == {"get", "rename", "delete"}

\* Handler p asks for a session that exists and belongs to another user.
ForeignSession(r) ==
    /\ r.op \in SessionOps
    /\ \E s \in sessions : s._id = r.session_id /\ s.user_id # r.user

\* Handler p takes a step.
Moves(p) == pc'[p] # pc[p] \/ req'[p] # req[p]

\* A request for a session of another user was answered 404, and a returned
\* list has sessions of the asking user only.
C12_ForeignSessionStates ==
    /\ \A p \in Procs :
          (Finished(p) /\ ForeignSession(resp[p].by)) => resp[p].status = 404
    /\ \A p \in Procs :
          (resp[p].status = 200 /\ resp[p].by.op = "list") =>
              \A x \in DOMAIN resp[p].body :
                  resp[p].body[x].user_id = resp[p].by.user

\* No step of a request for a session of another user changes the sessions,
\* the junction rows or the paper store.
C12_ForeignSessionSteps ==
    \A p \in Procs :
        (Moves(p) /\ ForeignSession(req[p])) =>
            UNCHANGED <<sessions, session_papers, graph_papers>>

\* C12: get_session, update_session and delete_session asked by a user for a
\* session of another user answer 404, no step of theirs changes the sessions,
\* the junction rows or the paper store, and list_sessions returns sessions
\* of the asking user only.
C12_NonOwnerNotFound ==
    []C12_ForeignSessionStates /\ [][C12_ForeignSessionSteps]_vars

\* C12 witness: a user's DELETE and the same user's PATCH with a new title,
\* both for a session of another user, were answered 404.
C12_Witness ==
    \E p, q \in Procs :
        /\ resp[p].status = 404 /\ resp[p].by.op = "delete"
        /\ ForeignSession(resp[p].by)
        /\ resp[q].status = 404 /\ resp[q].by.op = "rename"
        /\ resp[q].by.title = "renamed"
        /\ ForeignSession(resp[q].by)


\* Where a session handler stands when its next step is a write.
WritePcs == {"get_touch", "rename_write", "delete_rows", "delete_session"}

\* C13: whenever a write step of get_session, update_session or
\* delete_session changes the database or returns success, the session exists
\* and belongs to the acting user at that moment, under every interleaving
\* with another request.
C13_CheckAndWriteAtomic ==
    [][\A p \in Procs :
          (/\ pc[p] \in WritePcs
           /\ pc'[p] # pc[p]
           /\ \/ <<sessions, session_papers>>' # <<sessions, session_papers>>
              \/ resp'[p].status \in {200, 204}) =>
              FindSession(req[p].session_id, req[p].user) # {}]_vars


\* Handler p returned 204 for its DELETE of session oid.
Deleted(p, oid) ==
    /\ resp[p].status = 204
    /\ resp[p].by.op = "delete"
    /\ resp[p].by.session_id = oid

\* After a DELETE returned 204 the session and its junction rows are gone.
C14_DeletedIsGone ==
    \A p \in Procs :
        (resp[p].status = 204 /\ resp[p].by.op = "delete") =>
            /\ ~ \E s \in sessions : s._id = resp[p].by.session_id
            /\ RowsOf(resp[p].by.session_id) = <<>>

\* No step of a DELETE changes the paper store, another session or a
\* junction row of another session; and the find_one of a get_session for a
\* session whose DELETE has returned 204 is answered 404.
C14_DeleteFrame ==
    \A p \in Procs :
        /\ (Moves(p) /\ req[p].op = "delete") =>
              /\ graph_papers' = graph_papers
              /\ {s \in sessions' : s._id # req[p].session_id}
                     = {s \in sessions : s._id # req[p].session_id}
              /\ \A oid \in (1..next_oid) \ {req[p].session_id} :
                    RowsOf(oid)' = RowsOf(oid)
        /\ (/\ pc[p] = "get_find"
            /\ pc'[p] # pc[p]
            /\ \E q \in Procs : Deleted(q, req[p].session_id)) =>
              resp'[p].status = 404

\* C14: after delete_session returned 204 to the owner, the session and all
\* its junction rows are gone and a later get_session of it answers 404; the
\* delete changed no paper store entry, no other session and no junction row
\* of another session.
C14_DeleteRemovesSessionOnly ==
    []C14_DeletedIsGone /\ [][C14_DeleteFrame]_vars

\* C14 witness: the owner's DELETE returned 204, the owner's GET of the
\* deleted session was answered 404, and the other session, its junction row
\* and the paper store are as they were.
C14_Witness ==
    \E p, q \in Procs :
        /\ Deleted(q, 1)
        /\ resp[p].status = 404 /\ resp[p].by.op = "get"
        /\ resp[p].by.session_id = 1 /\ resp[p].by.user = resp[q].by.user
        /\ \E s \in sessions : s._id = 2
        /\ RowsOf(2) # <<>>
        /\ Len(graph_papers) = 2


\* The links as unordered pairs with their similarities.
LinkSet(links) ==
    {[pair |-> {links[x].source, links[x].target},
      similarity |-> links[x].similarity] : x \in DOMAIN links}

\* C15: get_session of a session created from a build that embedded all its
\* nodes returns the link set of that build (the same unordered pairs with
\* the same similarities), whatever order the store returns the papers in.
C15_ReloadSameLinks ==
    \A p, q \in Procs :
        (/\ resp[p].status = 201
         /\ Len(resp[p].by.embeddings) = Len(resp[p].by.nodes)
         /\ resp[q].status = 200
         /\ resp[q].by.op = "get"
         /\ resp[q].by.session_id = resp[p].body.id) =>
            LinkSet(resp[q].body.links) = LinkSet(resp[p].by.graph.links)


\* C16: after create_session returned 201, the junction rows of the new
\* session are one per node of the built graph, in node order and without a
\* repeated paper id, and exactly one of them has is_seed, the row of the
\* seed paper id.
C16_RowsMatchNodes ==
    \A p \in Procs :
        resp[p].status = 201 =>
            LET rows == RowsOf(resp[p].body.id)
                ids == [x \in DOMAIN rows |-> rows[x].arxiv_id]
                seeds == {x \in DOMAIN rows : rows[x].is_seed}
            IN  /\ ids = NodeIds(resp[p].by.graph.nodes)
                /\ IsInjective(ids)
                /\ Cardinality(seeds) = 1
                /\ \A x \in seeds : rows[x].arxiv_id = resp[p].by.paper_id

\* C16 witness: create_session returned 201 for a graph of two nodes.
C16_Witness ==
    \E p \in Procs :
        /\ resp[p].status = 201
        /\ Len(resp[p].by.graph.nodes) = 2
        /\ Len(RowsOf(resp[p].body.id)) = 2

\* C17: every junction row names a paper id that has an entry in
\* graph_papers, whatever discovery and embedding did.
C17_RowsReferenceStore ==
    \A x \in DOMAIN session_papers :
        \E y \in DOMAIN graph_papers :
            graph_papers[y].arxiv_id = session_papers[x].arxiv_id


\* The ids of the papers whose text the embedding call of build r carries:
\* one text per node.
EmbeddedIds(r) == {r.nodes[x].id : x \in DOMAIN Summaries(r.nodes)}

\* C18: the embedding call of a build carries the text of no paper whose id
\* has an entry, and so an embedding, in graph_papers.
C18_NoRedundantEmbedding ==
    \A p \in Procs :
        pc[p] = "embed" =>
            \A y \in DOMAIN graph_papers :
                graph_papers[y].arxiv_id \notin EmbeddedIds(req[p])


BuildOps == {"graph", "create"}

\* A build or a session creation that was answered 404 had built no node,
\* called neither discovery nor embedding, and left the collections empty as
\* it found them.
C19_NotFoundStates ==
    \A p \in Procs :
        (resp[p].status = 404 /\ resp[p].by.op \in BuildOps) =>
            /\ resp[p].by.nodes = <<>>
            /\ resp[p].by.disc_exc = None
            /\ resp[p].by.discovery_error = None
            /\ resp[p].by.embeddings = <<>>
            /\ ~ resp[p].by.embed_failed
            /\ graph_papers = <<>>
            /\ sessions = {}
            /\ session_papers = <<>>

\* The 404 is raised by the step that follows the seed fetch, and that step
\* writes nothing.
C19_NotFoundSteps ==
    \A p \in Procs :
        (req[p].op \in BuildOps /\ Moves(p) /\ resp'[p].status = 404) =>
            /\ pc[p] = "fetch_seed"
            /\ UNCHANGED store_vars

\* C19: when the seed id resolves to no paper, GET /graph and POST /sessions
\* answer 404 before any discovery or embedding call and leave graph_papers,
\* sessions and session_papers unchanged.
C19_SeedNotFound ==
    []C19_NotFoundStates /\ [][C19_NotFoundSteps]_vars

\* C19 witness: POST /sessions was answered 404.
C19_Witness ==
    \E p \in Procs :
        /\ resp[p].status = 404
        /\ resp[p].by.op = "create"
        /\ resp[p].by.paper_id \in PaperIds


\* The list a list_sessions step returns is made of the sessions of the
\* asking user, each once, with last_accessed never increasing along it.
C20_ListSteps ==
    \A p \in Procs :
        (pc[p] = "list_find" /\ Moves(p)) =>
            LET body == resp'[p].body
                owned == {s \in sessions : s.user_id = req[p].user}
            IN  /\ resp'[p].status = 200
                /\ {body[x] : x \in DOMAIN body}
                       = {SessionResponseOf(s) : s \in owned}
                /\ Len(body) = Cardinality(owned)
                /\ \A x, y \in DOMAIN body :
                      x < y => body[x].last_accessed >= body[y].last_accessed

\* A list_sessions that arrived right after a successful get_session of the
\* same user has the session that was read in its first place.
C20_ReadComesFirst ==
    \A p, q \in Procs :
        (/\ resp[p].status = 200 /\ resp[p].by.op = "get"
         /\ resp[q].status = 200 /\ resp[q].by.op = "list"
         /\ resp[q].by.user = resp[p].by.user
         /\ resp[q].by.now = resp[p].by.now + 1) =>
            /\ resp[q].body # <<>>
            /\ resp[q].body[1].id = resp[p].by.session_id

\* C20: list_sessions returns exactly the sessions of the asking user, by
\* last_accessed descending, and after a successful get_session of a session
\* that session is the first of the owner's list.
C20_ListByLastAccessed ==
    []C20_ReadComesFirst /\ [][C20_ListSteps]_vars

\* C20 witness: user 1 owns two sessions, read the one accessed longer ago,
\* and the list that followed has it first of two.
C20_Witness ==
    \E p, q \in Procs :
        /\ resp[p].status = 200 /\ resp[p].by.op = "get"
        /\ resp[p].by.session_id = 1
        /\ resp[q].status = 200 /\ resp[q].by.op = "list"
        /\ resp[q].by.user = resp[p].by.user
        /\ resp[q].by.now = resp[p].by.now + 1
        /\ Len(resp[q].body) = 2
        /\ resp[q].body[1].id = 1
        /\ resp[q].body[2].created_at > resp[q].body[1].created_at

\* Every step of a PATCH leaves the paper store and the junction rows as they
\* are, leaves every other session as it is, changes nothing but the title
\* of the session it names, changes nothing at all when it carries no title,
\* and its update leaves the session with the title it carries.
C21_RenameSteps ==
    \A p \in Procs :
        (Moves(p) /\ req[p].op = "rename") =>
            LET tgt == req[p].session_id
                Untitled(S) == {[s EXCEPT !.title = None] :
                                   s \in {x \in S : x._id = tgt}}
            IN  /\ graph_papers' = graph_papers
                /\ session_papers' = session_papers
                /\ {s \in sessions' : s._id # tgt} = {s \in sessions : s._id # tgt}
                /\ Untitled(sessions') = Untitled(sessions)
                /\ req[p].title = None => sessions' = sessions
                /\ resp'[p].status = 404 => sessions' = sessions
                /\ pc[p] = "rename_write" =>
                      \A s \in sessions' : s._id = tgt => s.title = req[p].title

\* C21: a successful update_session changes only the title of the session it
\* names: owner, seed paper id, mode, created_at and last_accessed of the
\* session, its junction rows, every other session and the paper store stay
\* as they are; without a title nothing changes at all.
C21_RenameChangesTitleOnly == [][C21_RenameSteps]_vars

\* C21 witness: the owner's PATCH with a new title returned 200; the session
\* has the new title and its owner, seed, mode and timestamps of before, its
\* junction rows and the other session are there.
C21_Witness ==
    \E p \in Procs :
        /\ resp[p].status = 200 /\ resp[p].by.op = "rename"
        /\ resp[p].by.session_id = 1 /\ resp[p].by.title = "renamed"
        /\ [EarlierSession(1, 1, 1, -1) EXCEPT !.title = "renamed"] \in sessions
        /\ Len(RowsOf(1)) = 2
        /\ \E s \in sessions : s._id = 2 /\ s.title = None

\* The links canonicalize_paper_id was applied to, each with its result.
Canonicalized ==
    {<<req[p].link, req[p].paper_id_chars>> :
        p \in {q \in Procs : pc[q] = "canonicalized"}}
    \cup
    {<<resp[p].by.link, <<>> >> :
        p \in {q \in Procs : resp[q].status = 422 /\ resp[q].by.link # <<>>}}

\* s ends in a "v" followed by one or more digits.
EndsInVersion(s) ==
    \E i \in DOMAIN s : s[i] = "v" /\ isdigit(SubSeq(s, i + 1, Len(s)))

\* A bare id: no /abs/ or /pdf/ segment, no "arxiv:" prefix in any case, no
\* version suffix, no blank around it.
BareId(s) ==
    /\ s # <<>>
    /\ ~ Contains(s, AbsSegment) /\ ~ Contains(s, PdfSegment)
    /\ \/ Len(s) < 6
       \/ \E i \in 1..6 :
             s[i] \notin {ArxivPrefix[i],
                          <<"A", "R", "X", "I", "V", ":">>[i]}
    /\ ~ EndsInVersion(s)
    /\ s[1] # " " /\ s[Len(s)] # " "

\* C22: canonicalize_paper_id takes what follows an /abs/ or /pdf/ segment
\* without trailing slash or .pdf suffix, then strips an "arxiv:" prefix of
\* any case, then a trailing version suffix vN: an arXiv id behind any of
\* these prefixes, versions and urls comes out as the id alone, so
\* "arXiv:1706.03762v5" gives "1706.03762", ".../abs/2301.12345/" gives
\* "2301.12345" and ".../pdf/1706.03762.pdf" gives "1706.03762"; a bare id
\* comes out unchanged.
C22_CanonicalizeSteps ==
    \A c \in Canonicalized :
        /\ \A d \in Decorations : c[1] = DecoratedLink(d) => c[2] = d.id
        /\ c[1] = <<"a", "r", "X", "i", "v", ":">> \o Id1 \o <<"v", "5">>
               => c[2] = Id1
        /\ c[1] = Host \o AbsSegment \o Id2 \o <<"/">> => c[2] = Id2
        /\ c[1] = Host \o PdfSegment \o Id1 \o PdfSuffix => c[2] = Id1
        /\ BareId(c[1]) => c[2] = c[1]

\* C22 witness: the link https://arxiv.org/pdf/arXiv:1706.03762v5.pdf, where
\* all three steps have something to strip, was canonicalized to 1706.03762.
C22_Witness ==
    \E p \in Procs :
        /\ pc[p] = "canonicalized"
        /\ req[p].link = Host \o PdfSegment \o <<"a", "r", "X", "i", "v", ":">>
                             \o Id1 \o <<"v", "5">> \o PdfSuffix
        /\ req[p].paper_id_chars = Id1

\* C23: whatever the input, the output of canonicalize_paper_id does not end
\* in a "v" followed by one or more digits.
C23_NoVersionSuffix ==
    \A c \in Canonicalized : ~ EndsInVersion(c[2])

Credentials ==
    {"JWT_SECRET_KEY", "MONGODB_URI", "MONGODB_DB_NAME", "OPENAI_API_KEY"}

\* C24: a missing required credential (database URI or name, auth secret,
\* embedding-provider API key) is fatal at startup: the app serves only with
\* all of them set, and no request is answered with the report of a missing
\* credential.
C24_ConfigErrorAtStartup ==
    /\ lifespan.pc \in {"serving", "closed"} =>
          \A name \in Credentials : env[name]
    /\ \A p \in Procs :
          resp[p].status = 500 => resp[p].body # "OPENAI_API_KEY is not set"

\* connect_db is over: the app serves (or has served), or the lifespan raised.
ConnectDbEnded == lifespan.pc \in {"serving", "closed", "failed"}

\* The attempts stay within MONGODB_CONNECT_RETRIES; a connection that is
\* established has its handles set; an error raised by an attempt or by the
\* index setup leaves both handles None.
C30_ConnectStates ==
    /\ lifespan.attempt >= 1 => lifespan.attempt <= retries
    /\ lifespan.pc = "serving" => client # None /\ db = "Database"
    /\ (lifespan.pc = "failed" /\ lifespan.attempt >= 1) =>
          client = None /\ db = None

\* Another attempt follows a ServerSelectionTimeoutError only, one attempt
\* at a time; any other error of the ping ends connect_db at once.
C30_ConnectSteps ==
    /\ lifespan'.attempt # lifespan.attempt =>
          /\ lifespan'.attempt = lifespan.attempt + 1
          /\ lifespan.attempt >= 1 =>
                lifespan.last_connect_error = "ServerSelectionTimeoutError"
    /\ (lifespan.pc = "ping" /\ lifespan'.pc \notin {"ping", "ensure_indexes"}) =>
          \/ lifespan'.pc = "failed"
          \/ /\ lifespan'.pc = "sleep"
             /\ lifespan'.last_connect_error = "ServerSelectionTimeoutError"

Embedded(res) == {x \in DOMAIN res.nodes : res.nodes[x].id \in DOMAIN res.emb}

\* The similarity of the nodes at positions i and j of a result.
SimOf(res, i, j) ==
    cosine_similarity(res.emb[res.nodes[i].id], res.emb[res.nodes[j].id])

\* j comes before k in the ranking of i: its similarity to i is higher, or
\* equal with j earlier in the node list.
RankedBefore(res, i, j, k) ==
    \/ SimGreater(SimOf(res, i, j), SimOf(res, i, k))
    \/ SimEqual(SimOf(res, i, j), SimOf(res, i, k)) /\ j < k

\* The first min(K_NEIGHBORS, m) of the m other embedded nodes in the
\* ranking of the embedded node i.
Nearest(res, i) ==
    {j \in Embedded(res) \ {i} :
        Cardinality({k \in Embedded(res) \ {i, j} : RankedBefore(res, i, k, j)})
            < K_NEIGHBORS}

\* The unordered pairs of node ids a graph links.
LinkedPairs(g) == {{g.links[x].source, g.links[x].target} : x \in DOMAIN g.links}

\* C25: in a graph of the build or of get_session, every embedded node A
\* selects the first min(3, m) of the m other embedded nodes in the order of
\* descending similarity, equal similarities in the order of the node list:
\* the links are the pairs so selected, A selects at most 3 neighbours, and
\* no node it leaves out is strictly more similar to A than one it selects.
C25_NearestNeighbours ==
    \A res \in GraphResults :
        LET E == Embedded(res)
            vec == {<<i, res.emb[res.nodes[i].id]>> : i \in E}
            sim == {<<p[1], q[1], cosine_similarity(p[2], q[2])>> :
                       <<p, q>> \in {pq \in vec \X vec : pq[1][1] # pq[2][1]}}
            selected ==
                {s \in sim :
                    Cardinality({t \in sim :
                        /\ t[1] = s[1]
                        /\ \/ SimGreater(t[3], s[3])
                           \/ SimEqual(t[3], s[3]) /\ t[2] < s[2]})
                      < K_NEIGHBORS}
        IN  /\ LinkedPairs(res.graph) =
                  {{res.nodes[s[1]].id, res.nodes[s[2]].id} : s \in selected}
            /\ \A i \in E :
                  Cardinality({s \in selected : s[1] = i})
                      = Min(K_NEIGHBORS, Cardinality(E) - 1)
            /\ \A s \in selected :
                  \A t \in sim \ selected :
                      t[1] = s[1] => ~ SimGreater(t[3], s[3])

\* C25 witness: a built graph of five embedded nodes in which a node has its
\* third and its fourth neighbour equally similar, takes the earlier of the
\* two and leaves the later one unlinked.
C25_Witness ==
    \E res \in BuildResults :
        /\ Cardinality(Embedded(res)) = 5
        /\ \E i \in Embedded(res) :
              \E j \in Nearest(res, i) :
                  \E k \in Embedded(res) \ ({i} \cup Nearest(res, i)) :
                      /\ SimEqual(SimOf(res, i, j), SimOf(res, i, k))
                      /\ j < k
                      /\ {res.nodes[i].id, res.nodes[k].id}
                             \notin LinkedPairs(res.graph)

\* C29: in every graph of the build or of get_session with at least two
\* embedded nodes, every embedded node is an endpoint of a link, every link
\* joins two distinct embedded nodes of the node list, and there are at most
\* 3 links per embedded node.
C29_EmbeddedNodesLinked ==
    \A res \in GraphResults :
        LET ids == {res.nodes[x].id : x \in Embedded(res)}
            links == res.graph.links
        IN  Cardinality(Embedded(res)) >= 2 =>
                /\ \A id \in ids :
                      \E x \in DOMAIN links :
                          id \in {links[x].source, links[x].target}
                /\ \A x \in DOMAIN links :
                      /\ links[x].source # links[x].target
                      /\ {links[x].source, links[x].target} \subseteq ids
                /\ Len(links) <= K_NEIGHBORS * Cardinality(Embedded(res))

\* C29 witness: get_session returned a graph of five embedded nodes in which
\* a node that no other node selects has the links of its own selection.
C29_Witness ==
    \E res \in GetResults :
        /\ Cardinality(Embedded(res)) = 5
        /\ \E i \in Embedded(res) :
              /\ \A j \in Embedded(res) \ {i} : i \notin Nearest(res, j)
              /\ \A j \in Nearest(res, i) :
                    {res.nodes[i].id, res.nodes[j].id} \in LinkedPairs(res.graph)

\* The builds whose discovery is just over.
Discovered == {req[p] : p \in {q \in Procs : pc[q] = "embed"}}

\* The node ids build r would have with the batch answer meta.
NodeIdsWith(r, meta) ==
    NodeIds(IF r.mode = "grounding"
            THEN GroundingLoop(r.discovered, meta, 1,
                               <<r.nodes[1]>>, {r.nodes[1].id})
            ELSE ReferenceLoop(fetch_references(r.raw_references, meta), 1,
                               <<r.nodes[1]>>, {r.nodes[1].id}))

\* C26: when the batch metadata fetch for the candidates fails (grounding,
\* or the enrichment inside fetch_references), every candidate with an arXiv
\* id still becomes a node, with its title and an empty summary: the node
\* ids are those of a build whose fetch succeeds, and the failure alone
\* leaves discovery_error unset and partial_data false.
C26_MetadataFailureKeepsCandidates ==
    /\ \A r \in Discovered :
          r.meta_failed =>
              LET cands == Range(CandidateIds(r))
              IN  /\ \A meta \in BatchAnswers(cands) :
                        NodeIds(r.nodes) = NodeIdsWith(r, meta)
                  /\ cands \subseteq Range(NodeIds(r.nodes))
                  /\ \A x \in 2..Len(r.nodes) :
                        /\ r.nodes[x].summary = EmptyText
                        /\ r.nodes[x].label \in {<<"found", r.nodes[x].id>>,
                                                 <<"cited", r.nodes[x].id>>}
                  /\ r.discovery_error = None
    /\ \A res \in BuildResults :
          res.by.meta_failed =>
              /\ \A x \in 2..Len(res.graph.nodes) :
                    res.graph.nodes[x].summary = EmptyText
              /\ ~ res.graph.partial_data
              /\ res.graph.references_error = None

\* C26 witness: GET /graph in references mode returned a graph whose
\* enrichment fetch failed: the reference is a node with its title and no
\* summary, partial_data is false.
C26_Witness ==
    \E p \in Procs :
        /\ resp[p].status = 200 /\ resp[p].by.op = "graph"
        /\ resp[p].by.mode = "references" /\ resp[p].by.meta_failed
        /\ Len(resp[p].body.nodes) = 2
        /\ resp[p].body.nodes[2].summary = EmptyText
        /\ ~ resp[p].body.partial_data


\* C27: in every reachable state, the intermediate states of a
\* create_session running together with a delete_session of the same
\* session included, every session_papers row refers to a session that
\* exists in sessions.
C27_NoOrphanRows ==
    \A x \in DOMAIN session_papers :
        \E s \in sessions : s._id = session_papers[x].session_id


\* C28: for every graph_papers document in every reachable state, under
\* concurrent builds that upsert the same arxiv_id with the timestamp each
\* read once before its upserts, created_at is less than or equal to
\* updated_at.
C28_CreatedBeforeUpdated ==
    \A x \in DOMAIN graph_papers :
        graph_papers[x].created_at <= graph_papers[x].updated_at

====
